---- MODULE Spec2Model ----
(***************************************************************************)
(* A model of go-pduckdb's native boundary layer: the integer conversions  *)
(* of internal/convert, the parameter binder of internal/duckdb, and the   *)
(* handle lifecycle of databases, connections, prepared statements and     *)
(* results.                                                                *)
(*                                                                         *)
(* TLC's integers are 32 bits wide, so a 64-bit machine word is kept as    *)
(* four 16-bit limbs <<l3, l2, l1, l0>>, most significant first.  A Go     *)
(* integer value is its kind ("int8" .. "uint64", "int", "uint") and the   *)
(* 64-bit word holding it, sign- or zero-extended as the kind says.        *)
(***************************************************************************)
EXTENDS Integers, Sequences, FiniteSets, TLC

(***************************************************************************)
(* 64-bit words.                                                           *)
(***************************************************************************)
Limb == 0..65535

Zero64 == <<0, 0, 0, 0>>

One64 == <<0, 0, 0, 1>>

\* Unsigned comparison of two words (Go's < on uint64).
LtU(a, b) ==
    \E i \in 1..4 : a[i] < b[i] /\ \A j \in 1..(i - 1) : a[j] = b[j]

\* Signed comparison of two words (Go's < on int64): flip the sign bit.
FlipSign(w) == <<(w[1] + 32768) % 65536, w[2], w[3], w[4]>>

LtS(a, b) == LtU(FlipSign(a), FlipSign(b))

\* w + 1 modulo 2^64.
Inc64(w) ==
    LET s4 == w[4] + 1
        s3 == w[3] + (s4 \div 65536)
        s2 == w[2] + (s3 \div 65536)
        s1 == w[1] + (s2 \div 65536)
    IN  <<s1 % 65536, s2 % 65536, s3 % 65536, s4 % 65536>>

\* Two's complement negation modulo 2^64 (Go's unary minus on int64).
Neg64(w) == Inc64(<<65535 - w[1], 65535 - w[2], 65535 - w[3], 65535 - w[4]>>)

IntKinds == {"int8", "int16", "int32", "int64", "int"}

UintKinds == {"uint8", "uint16", "uint32", "uint64", "uint"}

\* The width of a Go integer kind; int and uint are 64 bits wide on the
\* platforms the driver is built for (amd64, arm64).
Bits(k) ==
    CASE k \in {"int8", "uint8"} -> 8
      [] k \in {"int16", "uint16"} -> 16
      [] k \in {"int32", "uint32"} -> 32
      [] OTHER -> 64

Signed(k) == k \in IntKinds

\* The low `bits` bits of a word, the rest cleared.
Trunc(w, bits) ==
    CASE bits = 8 -> <<0, 0, 0, w[4] % 256>>
      [] bits = 16 -> <<0, 0, 0, w[4]>>
      [] bits = 32 -> <<0, 0, w[3], w[4]>>
      [] OTHER -> w

\* Bit (bits - 1) of a word.
SignBit(w, bits) ==
    CASE bits = 8 -> (w[4] % 256) >= 128
      [] bits = 16 -> w[4] >= 32768
      [] bits = 32 -> w[3] >= 32768
      [] OTHER -> w[1] >= 32768

\* The word with bits `bits` .. 63 set.
HighOnes(bits) ==
    CASE bits = 8 -> <<65535, 65535, 65535, 65280>>
      [] bits = 16 -> <<65535, 65535, 65535, 0>>
      [] bits = 32 -> <<65535, 65535, 0, 0>>
      [] OTHER -> Zero64

\* Go's integer conversion T(v): keep the low Bits(T) bits of v and extend
\* them as T's signedness says.
Conv(k, w) ==
    LET t == Trunc(w, Bits(k))
        h == HighOnes(Bits(k))
    IN  IF Signed(k) /\ SignBit(w, Bits(k))
        THEN <<h[1] + t[1], h[2] + t[2], h[3] + t[3], h[4] + t[4]>>
        ELSE t

\* a + b modulo 2^64 (Go's + on int64 and uint64).
Add64(a, b) ==
    LET s4 == a[4] + b[4]
        s3 == a[3] + b[3] + (s4 \div 65536)
        s2 == a[2] + b[2] + (s3 \div 65536)
        s1 == a[1] + b[1] + (s2 \div 65536)
    IN  <<s1 % 65536, s2 % 65536, s3 % 65536, s4 % 65536>>

\* w * m modulo 2^64 for a factor 0 <= m <= 32767 (Go's * on int64: the low
\* 64 bits of the product, whatever the signs).
MulSmall(w, m) ==
    LET s4 == w[4] * m
        s3 == w[3] * m + (s4 \div 65536)
        s2 == w[2] * m + (s3 \div 65536)
        s1 == w[1] * m + (s2 \div 65536)
    IN  <<s1 % 65536, s2 % 65536, s3 % 65536, s4 % 65536>>

\* The unsigned quotient and remainder of a word by 1 <= d <= 32767.
DivModSmall(w, d) ==
    LET r1 == w[1] % d
        n2 == r1 * 65536 + w[2]
        n3 == (n2 % d) * 65536 + w[3]
        n4 == (n3 % d) * 65536 + w[4]
    IN  [q |-> <<w[1] \div d, n2 \div d, n3 \div d, n4 \div d>>, r |-> n4 % d]

\* Go's / and % on int64 by 1 <= d <= 32767: the quotient is truncated
\* toward zero and the remainder has the sign of the dividend.
QuoRem(w, d) ==
    IF SignBit(w, 64)
    THEN [q |-> Neg64(DivModSmall(Neg64(w), d).q), r |-> 0 - DivModSmall(Neg64(w), d).r]
    ELSE DivModSmall(w, d)

(***************************************************************************)
(* Host values.  A Go value handed to the driver is its dynamic kind, the  *)
(* word of an integer or boolean, and the characters of a string.          *)
(***************************************************************************)
IntValue(k, w) == [k |-> k, w |-> Conv(k, w), s |-> <<>>]

StringValue(chars) == [k |-> "string", w |-> Zero64, s |-> chars]

BoolValue(b) == [k |-> "bool", w |-> IF b THEN One64 ELSE Zero64, s |-> <<>>]

NilValue == [k |-> "nil", w |-> Zero64, s |-> <<>>]

\* A value of a kind the integer conversions have no case for ([]int, ...).
OtherValue == [k |-> "slice", w |-> Zero64, s |-> <<>>]

(***************************************************************************)
(* strconv.ParseInt(s, 10, 64), as ToIntX calls it: an optional sign, then *)
(* one or more decimal digits accumulated in a uint64; a value that does   *)
(* not fit an int64 is a range error.                                      *)
(***************************************************************************)
DigitChars == <<"0", "1", "2", "3", "4", "5", "6", "7", "8", "9">>

IsDigit(c) == \E d \in 1..10 : DigitChars[d] = c

DigitVal(c) == (CHOOSE d \in 1..10 : DigitChars[d] = c) - 1

\* w * 10 + d as five limbs; the first is what overflows 64 bits.
Mul10Add(w, d) ==
    LET s4 == w[4] * 10 + d
        s3 == w[3] * 10 + (s4 \div 65536)
        s2 == w[2] * 10 + (s3 \div 65536)
        s1 == w[1] * 10 + (s2 \div 65536)
    IN  <<s1 \div 65536, s1 % 65536, s2 % 65536, s3 % 65536, s4 % 65536>>

RECURSIVE ParseUintFrom(_, _, _)
\* The digits chars[i..] accumulated onto acc: [ok, w].
ParseUintFrom(chars, i, acc) ==
    IF i > Len(chars) THEN [ok |-> TRUE, w |-> acc]
    ELSE IF ~IsDigit(chars[i]) THEN [ok |-> FALSE, w |-> Zero64]
    ELSE LET m == Mul10Add(acc, DigitVal(chars[i]))
         IN  IF m[1] # 0 THEN [ok |-> FALSE, w |-> Zero64]
             ELSE ParseUintFrom(chars, i + 1, <<m[2], m[3], m[4], m[5]>>)

\* 1 << 63, the magnitude of the least int64.
Cutoff63 == <<32768, 0, 0, 0>>

ParseInt(chars) ==
    LET neg == Len(chars) > 0 /\ chars[1] = "-"
        signed == Len(chars) > 0 /\ chars[1] \in {"-", "+"}
        first == IF signed THEN 2 ELSE 1
        un == IF first > Len(chars) THEN [ok |-> FALSE, w |-> Zero64]
              ELSE ParseUintFrom(chars, first, Zero64)
    IN  IF ~un.ok THEN [ok |-> FALSE, w |-> Zero64]
        ELSE IF ~neg /\ ~LtU(un.w, Cutoff63) THEN [ok |-> FALSE, w |-> Zero64]
        ELSE IF neg /\ LtU(Cutoff63, un.w) THEN [ok |-> FALSE, w |-> Zero64]
        ELSE [ok |-> TRUE, w |-> IF neg THEN Neg64(un.w) ELSE un.w]

(***************************************************************************)
(* internal/convert: ToIntX and its eight instantiations.                  *)
(***************************************************************************)
TargetKinds ==
    {"int8", "int16", "int32", "int64", "uint8", "uint16", "uint32", "uint64"}

\* math.MinInt8 .. math.MinInt64, and 0 for the unsigned targets, as a value
\* of the target type.
MinValue(T) ==
    CASE T = "int8" -> <<65535, 65535, 65535, 65408>>
      [] T = "int16" -> <<65535, 65535, 65535, 32768>>
      [] T = "int32" -> <<65535, 65535, 32768, 0>>
      [] T = "int64" -> <<32768, 0, 0, 0>>
      [] OTHER -> Zero64

\* math.MaxInt8 .. math.MaxUint64 as a value of the target type.
MaxValue(T) ==
    CASE T = "int8" -> <<0, 0, 0, 127>>
      [] T = "int16" -> <<0, 0, 0, 32767>>
      [] T = "int32" -> <<0, 0, 32767, 65535>>
      [] T = "int64" -> <<32767, 65535, 65535, 65535>>
      [] T = "uint8" -> <<0, 0, 0, 255>>
      [] T = "uint16" -> <<0, 0, 0, 65535>>
      [] T = "uint32" -> <<0, 0, 65535, 65535>>
      [] OTHER -> <<65535, 65535, 65535, 65535>>

ConvOk(w) == [ok |-> TRUE, w |-> w]

ConvErr == [ok |-> FALSE, w |-> Zero64]

\* The signed cases of ToIntX with the range test left out.
ToIntXSignedUnchecked(T, w) == ConvOk(Conv(T, w))

\* The signed cases of ToIntX: both bounds are converted to int64 and
\* compared as int64.
ToIntXSigned(T, w) ==
    IF LtS(Conv("int64", w), Conv("int64", MinValue(T)))
       \/ LtS(Conv("int64", MaxValue(T)), Conv("int64", w))
    THEN ConvErr
    ELSE ConvOk(Conv(T, w))

\* The unsigned cases of ToIntX: both bounds are converted to uint64 and
\* compared as uint64.
ToIntXUnsigned(T, w) ==
    IF LtU(Conv("uint64", w), Conv("uint64", MinValue(T)))
       \/ LtU(Conv("uint64", MaxValue(T)), Conv("uint64", w))
    THEN ConvErr
    ELSE ConvOk(Conv(T, w))

\* The string case of ToIntX: ParseInt, then the signed range check.
ToIntXString(T, chars) ==
    LET i == ParseInt(chars)
    IN  IF ~i.ok THEN ConvErr ELSE ToIntXSigned(T, i.w)

\* ToIntX[T](value, minValue, maxValue): [ok, w], w a value of kind T.
\* The float32 and float64 cases are outside the host values modelled.
ToIntX(T, value) ==
    CASE value.k \in IntKinds -> ToIntXSigned(T, value.w)
      [] value.k \in UintKinds -> ToIntXUnsigned(T, value.w)
      [] value.k = "string" -> ToIntXString(T, value.s)
      [] value.k = "bool" -> ConvOk(value.w)
      [] OTHER -> ConvErr

(***************************************************************************)
(* Mathematical integers, for stating what a conversion should do: a sign  *)
(* and a 64-bit magnitude, so that every int64 and every uint64 value has  *)
(* one.                                                                    *)
(***************************************************************************)
MathInt(neg, mag) == [neg |-> neg /\ mag # Zero64, mag |-> mag]

MathLt(a, b) ==
    \/ a.neg /\ ~b.neg
    \/ ~a.neg /\ ~b.neg /\ LtU(a.mag, b.mag)
    \/ a.neg /\ b.neg /\ LtU(b.mag, a.mag)

MathLe(a, b) == a = b \/ MathLt(a, b)

\* The number a word of kind k stands for.
MathOf(k, w) ==
    IF Signed(k) /\ SignBit(w, 64) THEN MathInt(TRUE, Neg64(w))
    ELSE MathInt(FALSE, w)

\* The range of kind k.
MathMin(k) ==
    CASE k = "int8" -> MathInt(TRUE, <<0, 0, 0, 128>>)
      [] k = "int16" -> MathInt(TRUE, <<0, 0, 0, 32768>>)
      [] k = "int32" -> MathInt(TRUE, <<0, 0, 32768, 0>>)
      [] k \in {"int64", "int"} -> MathInt(TRUE, <<32768, 0, 0, 0>>)
      [] OTHER -> MathInt(FALSE, Zero64)

MathMax(k) ==
    CASE k = "int8" -> MathInt(FALSE, <<0, 0, 0, 127>>)
      [] k = "int16" -> MathInt(FALSE, <<0, 0, 0, 32767>>)
      [] k = "int32" -> MathInt(FALSE, <<0, 0, 32767, 65535>>)
      [] k \in {"int64", "int"} -> MathInt(FALSE, <<32767, 65535, 65535, 65535>>)
      [] k = "uint8" -> MathInt(FALSE, <<0, 0, 0, 255>>)
      [] k = "uint16" -> MathInt(FALSE, <<0, 0, 0, 65535>>)
      [] k = "uint32" -> MathInt(FALSE, <<0, 0, 65535, 65535>>)
      [] OTHER -> MathInt(FALSE, <<65535, 65535, 65535, 65535>>)

InRange(m, k) == MathLe(MathMin(k), m) /\ MathLe(m, MathMax(k))

\* The word of kind k holding the number m, for m in k's range.
WordOf(m) == IF m.neg THEN Neg64(m.mag) ELSE m.mag

\* The decimal numeral of a number: strconv.FormatInt / fmt's %d.
DivMod10(w) ==
    LET c1 == w[1]
        c2 == (c1 % 10) * 65536 + w[2]
        c3 == (c2 % 10) * 65536 + w[3]
        c4 == (c3 % 10) * 65536 + w[4]
    IN  [q |-> <<c1 \div 10, c2 \div 10, c3 \div 10, c4 \div 10>>, r |-> c4 % 10]

RECURSIVE DigitsOf(_)
DigitsOf(w) ==
    LET d == DivMod10(w)
    IN  IF d.q = Zero64 THEN <<DigitChars[d.r + 1]>>
        ELSE Append(DigitsOf(d.q), DigitChars[d.r + 1])

Numeral(m) == IF m.neg THEN <<"-">> \o DigitsOf(m.mag) ELSE DigitsOf(m.mag)


(***************************************************************************)
(* Host values of the other kinds the binder converts: convert.Date,       *)
(* convert.Time, time.Time, float64 and maps.                              *)
(***************************************************************************)
\* convert.Date{Days: days}.
DateValue(days) == [k |-> "Date", w |-> Conv("int32", days), s |-> <<>>]

\* convert.Time{Micros: micros}.
ClockValue(micros) == [k |-> "Time", w |-> micros, s |-> <<>>]

\* A time.Time: the Unix seconds, the nanoseconds within the second, and the
\* offset of its location east of UTC in seconds (0 <= off < 86400).
GoTime(sec, nsec, off) ==
    [k |-> "time.Time", w |-> sec, s |-> <<>>, nsec |-> nsec, off |-> off]

\* A float64, held as the shortest decimal text that parses back to it
\* (strconv.FormatFloat(v, 'f', -1, 64)).
FloatValue(chars) == [k |-> "float64", w |-> Zero64, s |-> chars]

\* A map[string]int with the one entry key: 1, or the empty map.
MapValue(key) == [k |-> "map", w |-> Zero64, s |-> key]

(***************************************************************************)
(* Decimal numbers: a sign, the significant digits d1 .. dn without        *)
(* leading or trailing zeros, and the exponent e of 0.d1..dn * 10^e.       *)
(***************************************************************************)
RECURSIVE StripTrailingZeros(_)
StripTrailingZeros(d) ==
    IF d # <<>> /\ d[Len(d)] = 0
    THEN StripTrailingZeros(SubSeq(d, 1, Len(d) - 1))
    ELSE d

RECURSIVE StripLeadingZeros(_, _)
\* [d, e]: the digits without leading zeros, each dropped zero lowering e.
StripLeadingZeros(d, e) ==
    IF d # <<>> /\ d[1] = 0 THEN StripLeadingZeros(Tail(d), e - 1)
    ELSE [d |-> d, e |-> e]

Decimal(neg, d, e) ==
    IF StripTrailingZeros(StripLeadingZeros(d, e).d) = <<>>
    THEN [neg |-> FALSE, d |-> <<>>, e |-> 0]
    ELSE [neg |-> neg, d |-> StripTrailingZeros(StripLeadingZeros(d, e).d),
          e |-> StripLeadingZeros(d, e).e]

\* The position of the decimal point in chars, Len(chars) + 1 without one.
PointAt(chars) ==
    IF \E i \in 1..Len(chars) : chars[i] = "."
    THEN CHOOSE i \in 1..Len(chars) : chars[i] = "."
    ELSE Len(chars) + 1

DigitsAt(chars, from, to) == [i \in 1..(to - from + 1) |-> DigitVal(chars[from + i - 1])]

\* The number a plain decimal text [-]ddd[.ddd] denotes.
ParseDecimal(chars) ==
    LET first == IF chars # <<>> /\ chars[1] = "-" THEN 2 ELSE 1
        p == PointAt(chars)
    IN  Decimal(first = 2,
                DigitsAt(chars, first, p - 1) \o DigitsAt(chars, p + 1, Len(chars)),
                p - first)

RECURSIVE IncDigits(_)
\* The digit string d plus one in its last place: [carry, d].
IncDigits(d) ==
    IF d = <<>> THEN [carry |-> TRUE, d |-> <<>>]
    ELSE IF d[Len(d)] < 9
         THEN [carry |-> FALSE, d |-> [d EXCEPT ![Len(d)] = @ + 1]]
    ELSE [carry |-> IncDigits(SubSeq(d, 1, Len(d) - 1)).carry,
          d |-> Append(IncDigits(SubSeq(d, 1, Len(d) - 1)).d, 0)]

\* A decimal rounded to p significant digits.
RoundSig(f, p) ==
    IF Len(f.d) <= p THEN f
    ELSE IF f.d[p + 1] < 5 THEN Decimal(f.neg, SubSeq(f.d, 1, p), f.e)
    ELSE IF IncDigits(SubSeq(f.d, 1, p)).carry THEN Decimal(f.neg, <<1>>, f.e + 1)
    ELSE Decimal(f.neg, IncDigits(SubSeq(f.d, 1, p)).d, f.e)

DigitText(d) == [i \in 1..Len(d) |-> DigitChars[d[i] + 1]]

Zeros(n) == [i \in 1..n |-> "0"]

\* A decimal in plain notation, as %g prints a number whose exponent needs
\* no e-form (0.0001 <= |f| < 10^p).
PlainText(f) ==
    (IF f.neg THEN <<"-">> ELSE <<>>) \o
    (IF f.d = <<>> THEN <<"0">>
     ELSE IF f.e <= 0 THEN <<"0", ".">> \o Zeros(0 - f.e) \o DigitText(f.d)
     ELSE IF f.e >= Len(f.d) THEN DigitText(f.d) \o Zeros(f.e - Len(f.d))
     ELSE DigitText(SubSeq(f.d, 1, f.e)) \o <<".">>
          \o DigitText(SubSeq(f.d, f.e + 1, Len(f.d))))

\* fmt.Sprintf("%.15g", v) of the float64 v = f.
Sprintf15g(f) == PlainText(RoundSig(f, 15))

(***************************************************************************)
(* time.Time: the seconds since 1970-01-01T00:00:00Z as an int64 word and  *)
(* the nanoseconds within the second.                                      *)
(***************************************************************************)
Instant(sec, nsec) == [sec |-> sec, nsec |-> nsec]

\* time.Unix(sec, nsec) for -1e9 < nsec < 1e9: a negative nsec borrows one
\* second.
TimeUnix(sec, nsec) ==
    IF nsec < 0
    THEN Instant(Add64(sec, <<65535, 65535, 65535, 65535>>), nsec + 1000000000)
    ELSE Instant(sec, nsec)

\* Go's w / 1_000_000 and w % 1_000_000 on int64, through two divisions by
\* 1000: [q, r].
QuoRemMillion(w) ==
    [q |-> QuoRem(QuoRem(w, 1000).q, 1000).q,
     r |-> QuoRem(QuoRem(w, 1000).q, 1000).r * 1000 + QuoRem(w, 1000).r]

\* w * 86400 modulo 2^64.
MulDaySeconds(w) == MulSmall(MulSmall(w, 24), 3600)

\* Floor division and modulus of an int64 word by 1_000_000.
FloorDivMillion(w) ==
    IF QuoRemMillion(w).r < 0
    THEN [q |-> Add64(QuoRemMillion(w).q, <<65535, 65535, 65535, 65535>>),
          r |-> QuoRemMillion(w).r + 1000000]
    ELSE QuoRemMillion(w)

(***************************************************************************)
(* Calendar arithmetic of package time: the proleptic Gregorian calendar,  *)
(* days counted from 1970-01-01.                                           *)
(***************************************************************************)
\* The int32 in the low half of a word, as a number.
IntOf32(w) ==
    IF w[3] >= 32768 THEN (w[3] - 65536) * 65536 + w[4] ELSE w[3] * 65536 + w[4]

\* Floor division and modulus of an int64 word by 1 <= d <= 32767.
FloorDiv(w, d) ==
    IF QuoRem(w, d).r < 0
    THEN [q |-> Add64(QuoRem(w, d).q, <<65535, 65535, 65535, 65535>>),
          r |-> QuoRem(w, d).r + d]
    ELSE QuoRem(w, d)

\* The day number of the Unix second sec, and the second within that day.
DayOf(sec) == FloorDiv(FloorDiv(sec, 24).q, 3600).q

SecondOfDay(sec) == FloorDiv(FloorDiv(sec, 24).q, 3600).r * 24 + FloorDiv(sec, 24).r

\* The civil date of a day number: [year, month, day].
CivilFromDays(days) ==
    LET z == days + 719468
        era == z \div 146097
        doe == z - era * 146097
        yoe == (doe - (doe \div 1460) + (doe \div 36524) - (doe \div 146096)) \div 365
        doy == doe - (365 * yoe + (yoe \div 4) - (yoe \div 100))
        mp == (5 * doy + 2) \div 153
        m == IF mp < 10 THEN mp + 3 ELSE mp - 9
    IN  [year |-> yoe + era * 400 + (IF m <= 2 THEN 1 ELSE 0),
         month |-> m,
         day |-> doy - ((153 * mp + 2) \div 5) + 1]

\* The day number of a civil date.
DaysFromCivil(year, month, day) ==
    LET y == IF month <= 2 THEN year - 1 ELSE year
        era == y \div 400
        yoe == y - era * 400
        mp == IF month > 2 THEN month - 3 ELSE month + 9
        doy == ((153 * mp + 2) \div 5) + day - 1
    IN  era * 146097 + yoe * 365 + (yoe \div 4) - (yoe \div 100) + doy - 719468

IsLeap(year) == year % 4 = 0 /\ (year % 100 # 0 \/ year % 400 = 0)

DaysIn(year, month) ==
    CASE month = 2 -> IF IsLeap(year) THEN 29 ELSE 28
      [] month \in {4, 6, 9, 11} -> 30
      [] OTHER -> 31

\* n in exactly `width` decimal digits, zero-padded (0 <= n < 10^width).
RECURSIVE Padded(_, _)
Padded(n, width) ==
    IF width = 0 THEN <<>>
    ELSE Append(Padded(n \div 10, width - 1), DigitChars[(n % 10) + 1])

NumberAt(chars, from, to) ==
    IF \A i \in from..to : IsDigit(chars[i])
    THEN [ok |-> TRUE, n |-> IF from > to THEN 0
                             ELSE LET d == DigitsAt(chars, from, to)
                                  IN  IF to - from = 3
                                      THEN d[1] * 1000 + d[2] * 100 + d[3] * 10 + d[4]
                                      ELSE d[1] * 10 + d[2]]
    ELSE [ok |-> FALSE, n |-> 0]

\* time.Parse("2006-01-02", chars): [ok, days].
ParseDate(chars) ==
    IF Len(chars) # 10 \/ chars[5] # "-" \/ chars[8] # "-"
       \/ ~NumberAt(chars, 1, 4).ok \/ ~NumberAt(chars, 6, 7).ok
       \/ ~NumberAt(chars, 9, 10).ok
    THEN [ok |-> FALSE, days |-> 0]
    ELSE IF NumberAt(chars, 6, 7).n \notin 1..12
            \/ NumberAt(chars, 9, 10).n
                  \notin 1..DaysIn(NumberAt(chars, 1, 4).n, NumberAt(chars, 6, 7).n)
    THEN [ok |-> FALSE, days |-> 0]
    ELSE [ok |-> TRUE,
          days |-> DaysFromCivil(NumberAt(chars, 1, 4).n, NumberAt(chars, 6, 7).n,
                                 NumberAt(chars, 9, 10).n)]

\* t.Format("2006-01-02") of the midnight of a day number whose year is in
\* 0 .. 9999.
FormatDate(days) ==
    Padded(CivilFromDays(days).year, 4) \o <<"-">>
    \o Padded(CivilFromDays(days).month, 2) \o <<"-">>
    \o Padded(CivilFromDays(days).day, 2)

\* The ".999999" of a layout: the microseconds without trailing zeros, and
\* nothing at all for zero.
FormatFraction(micros) ==
    IF micros = 0 THEN <<>>
    ELSE <<".">> \o DigitText(StripTrailingZeros(
              [i \in 1..6 |-> DigitVal(Padded(micros, 6)[i])]))

\* t.Format("15:04:05.999999") of a clock second 0 .. 86399 and microsecond.
FormatClock(sod, micros) ==
    Padded(sod \div 3600, 2) \o <<":">> \o Padded((sod % 3600) \div 60, 2)
    \o <<":">> \o Padded(sod % 60, 2) \o FormatFraction(micros)

\* The largest day count time.Duration holds: Time.Sub saturates at
\* math.MaxInt64 nanoseconds, 106751.99 days.
MaxDurationDays == <<0, 0, 1, 41215>>

\* int32(t.Sub(epoch).Hours() / 24) for the UTC midnight of day number days.
DaysSince(days) ==
    IF LtS(MaxDurationDays, days) THEN Conv("int32", MaxDurationDays)
    ELSE IF LtS(days, Neg64(MaxDurationDays)) THEN Conv("int32", Neg64(MaxDurationDays))
    ELSE Conv("int32", days)

\* A small number as an int64 word (|i| < 2^31).
WordOfInt(i) ==
    IF i < 0 THEN Neg64(<<0, 0, (0 - i) \div 65536, (0 - i) % 65536>>)
    ELSE <<0, 0, i \div 65536, i % 65536>>

(***************************************************************************)
(* internal/convert: ToBoolean, ToString, ToDate, ToTime, ToTimestamp and  *)
(* ToFloat64.                                                              *)
(***************************************************************************)
UpperChars == <<"A", "E", "F", "L", "N", "O", "R", "S", "T", "U", "Y">>

LowerChars == <<"a", "e", "f", "l", "n", "o", "r", "s", "t", "u", "y">>

\* strings.ToLower on the letters above; other characters are unchanged.
ToLower(chars) ==
    [i \in 1..Len(chars) |->
        IF \E j \in 1..Len(UpperChars) : UpperChars[j] = chars[i]
        THEN LowerChars[CHOOSE j \in 1..Len(UpperChars) : UpperChars[j] = chars[i]]
        ELSE chars[i]]

RECURSIVE TrimSpace(_)
\* strings.TrimSpace for the space character.
TrimSpace(chars) ==
    IF chars # <<>> /\ chars[1] = " " THEN TrimSpace(Tail(chars))
    ELSE IF chars # <<>> /\ chars[Len(chars)] = " "
         THEN TrimSpace(SubSeq(chars, 1, Len(chars) - 1))
    ELSE chars

TrueWords ==
    {<<"t", "r", "u", "e">>, <<"1">>, <<"t">>, <<"y", "e", "s">>, <<"y">>}

BoolWord(b) == IF b THEN One64 ELSE Zero64

\* ToBoolean: [ok, w].  In the integer case v is still the interface value,
\* so v != 0 compares it with int(0): values of another dynamic type differ
\* from it whatever they hold.
ToBoolean(value) ==
    CASE value.k = "bool" -> ConvOk(value.w)
      [] value.k \in IntKinds \cup UintKinds ->
          ConvOk(BoolWord(~(value.k = "int" /\ value.w = Zero64)))
      [] value.k = "string" ->
          ConvOk(BoolWord(ToLower(TrimSpace(value.s)) \in TrueWords))
      [] OTHER -> ConvErr

\* convert.ToString (ToString is taken by the TLC module) for strings and
\* for what fmt.Sprint prints of integers,
\* booleans and float64s: the characters.
ConvertToString(value) ==
    CASE value.k = "string" -> value.s
      [] value.k \in IntKinds \cup UintKinds -> Numeral(MathOf(value.k, value.w))
      [] value.k = "bool" ->
          IF value.w = Zero64 THEN <<"f", "a", "l", "s", "e">>
          ELSE <<"t", "r", "u", "e">>
      [] value.k = "float64" -> value.s

\* ToDate: [ok, w] with w the Days of the Date.  DuckDBDate is an alias of
\* int32, so an int32 is taken as a day count.
ToDate(value) ==
    CASE value.k = "Date" -> ConvOk(value.w)
      [] value.k = "int32" -> ConvOk(value.w)
      [] value.k = "time.Time" -> ConvOk(DaysSince(DayOf(value.w)))
      [] value.k = "string" ->
          IF ParseDate(value.s).ok
          THEN ConvOk(DaysSince(WordOfInt(ParseDate(value.s).days)))
          ELSE ConvErr
      [] OTHER -> ConvErr

\* totalMicros of ToTime for the UTC clock of a time.Time.
ClockMicros(sec, nsec) ==
    Add64(MulSmall(MulSmall(WordOfInt(SecondOfDay(sec)), 1000), 1000),
          WordOfInt(nsec \div 1000))

\* ToTime for the typed values: [ok, w] with w the Micros of the Time.
\* DuckDBTime is an alias of int64, so an int64 is taken as microseconds.
ToTime(value) ==
    CASE value.k = "Time" -> ConvOk(value.w)
      [] value.k = "int64" -> ConvOk(value.w)
      [] value.k = "time.Time" -> ConvOk(ClockMicros(value.w, value.nsec))
      [] value.k \in {"bool", "nil", "slice", "map", "float64", "Date"}
            \cup ((IntKinds \cup UintKinds) \ {"int64"}) -> ConvErr

\* ToTimestamp for the typed values: [ok, t].
ToTimestamp(value) ==
    CASE value.k = "time.Time" -> [ok |-> TRUE, t |-> value]
      [] value.k \in {"bool", "nil", "slice", "map", "float64", "Date", "Time"}
            \cup IntKinds \cup UintKinds ->
          [ok |-> FALSE, t |-> GoTime(Zero64, 0, 0)]

\* ToFloat64: [ok, f] with f the decimal of the float64.  Integers are
\* converted exactly up to 2^53.
ToFloat64(value) ==
    CASE value.k = "float64" -> [ok |-> TRUE, f |-> ParseDecimal(value.s)]
      [] value.k \in IntKinds \cup UintKinds ->
          [ok |-> TRUE, f |-> ParseDecimal(Numeral(MathOf(value.k, value.w)))]
      [] value.k = "bool" ->
          [ok |-> TRUE, f |-> ParseDecimal(IF value.w = Zero64 THEN <<"0">> ELSE <<"1">>)]
      [] value.k \in {"nil", "slice", "map", "Date", "Time", "time.Time"} ->
          [ok |-> FALSE, f |-> ParseDecimal(<<"0">>)]

(***************************************************************************)
(* The function table (internal/duckdb DB): one slot per native entry      *)
(* point.  The binder and the statement methods test these slots for nil   *)
(* before calling through them; `unset` is the set of slots left nil.      *)
(***************************************************************************)
BindSlots ==
    {"BindInt8", "BindInt16", "BindInt32", "BindInt64",
     "BindUint8", "BindUint16", "BindUint32", "BindUint64"}

\* The native bind entry points check the 1-based index against the
\* statement's parameter count n.
NativeBindState(n, idx) ==
    IF idx >= 1 /\ idx <= n THEN "DuckDBSuccess" ELSE "DuckDBError"

\* A native call as the library sees it: entry point, index argument, and
\* the kind and word of the value argument.
NativeCall(fn, idx, k, w) == [fn |-> fn, idx |-> idx, k |-> k, w |-> w]

BindErr(e) == [err |-> e, calls |-> <<>>]

\* The tail of BindParameter: the state the entry point returned decides.
BindVia(n, fn, idx, k, w) ==
    [err |-> IF NativeBindState(n, idx) = "DuckDBSuccess" THEN "none"
             ELSE "bind_failed",
     calls |-> <<NativeCall(fn, idx, k, Conv(k, w))>>]

\* The cases of BindParameter for the integer parameter types; c is what the
\* convert function of the case returned for the value.
BindTinyint(unset, n, idx, c) ==
    IF ~c.ok THEN BindErr("conversion")
        ELSE IF "BindInt8" \notin unset THEN BindVia(n, "bind_int8", idx, "int8", c.w)
        ELSE IF "BindInt32" \notin unset THEN BindVia(n, "bind_int32", idx, "int32", c.w)
        ELSE IF "BindInt64" \notin unset THEN BindVia(n, "bind_int64", idx, "int64", c.w)
        ELSE BindErr("no_bind_function")

BindSmallint(unset, n, idx, c) ==
    IF ~c.ok THEN BindErr("conversion")
        ELSE IF "BindInt16" \notin unset THEN BindVia(n, "bind_int16", idx, "int16", c.w)
        ELSE IF "BindInt32" \notin unset THEN BindVia(n, "bind_int32", idx, "int32", c.w)
        ELSE IF "BindInt64" \notin unset THEN BindVia(n, "bind_int64", idx, "int64", c.w)
        ELSE BindErr("no_bind_function")

BindInteger(unset, n, idx, c) ==
    IF ~c.ok THEN BindErr("conversion")
        ELSE IF "BindInt32" \notin unset THEN BindVia(n, "bind_int32", idx, "int32", c.w)
        ELSE IF "BindInt64" \notin unset THEN BindVia(n, "bind_int64", idx, "int64", c.w)
        ELSE BindErr("no_bind_function")

BindBigint(unset, n, idx, c) ==
    IF ~c.ok THEN BindErr("conversion")
        ELSE IF "BindInt64" \notin unset THEN BindVia(n, "bind_int64", idx, "int64", c.w)
        ELSE BindErr("no_bind_function")

BindUTinyint(unset, n, idx, c) ==
    IF ~c.ok THEN BindErr("conversion")
        ELSE IF "BindUint8" \notin unset THEN BindVia(n, "bind_uint8", idx, "uint8", c.w)
        ELSE IF "BindInt32" \notin unset THEN BindVia(n, "bind_int32", idx, "int32", c.w)
        ELSE IF "BindInt64" \notin unset THEN BindVia(n, "bind_int64", idx, "int64", c.w)
        ELSE BindErr("no_bind_function")

BindUSmallint(unset, n, idx, c) ==
    IF ~c.ok THEN BindErr("conversion")
        ELSE IF "BindUint16" \notin unset THEN BindVia(n, "bind_uint16", idx, "uint16", c.w)
        ELSE IF "BindInt32" \notin unset /\ ~SignBit(Conv("int32", c.w), 64)
             THEN BindVia(n, "bind_int32", idx, "int32", c.w)
        ELSE IF "BindInt64" \notin unset THEN BindVia(n, "bind_int64", idx, "int64", c.w)
        ELSE BindErr("no_bind_function")

BindUInteger(unset, n, idx, c) ==
    IF ~c.ok THEN BindErr("conversion")
        ELSE IF "BindUint32" \notin unset THEN BindVia(n, "bind_uint32", idx, "uint32", c.w)
        ELSE IF "BindInt64" \notin unset /\ ~SignBit(Conv("int64", c.w), 64)
             THEN BindVia(n, "bind_int64", idx, "int64", c.w)
        ELSE BindErr("no_bind_function")

BindUBigint(unset, n, idx, c) ==
    IF ~c.ok THEN BindErr("conversion")
        ELSE IF "BindUint64" \notin unset THEN BindVia(n, "bind_uint64", idx, "uint64", c.w)
        ELSE IF "BindInt64" \notin unset /\ ~LtU(MaxValue("int64"), c.w)
             THEN BindVia(n, "bind_int64", idx, "int64", c.w)
        ELSE BindErr("no_bind_function")

\* The slots of the other bind entry points.
OtherBindSlots ==
    {"BindBoolean", "BindVarchar", "BindDate", "BindTime", "BindTimestamp",
     "BindDouble"}

\* A native call whose value argument is a C string or a float64, held as
\* its characters.
NativeCallText(fn, idx, k, chars) ==
    [fn |-> fn, idx |-> idx, k |-> k, w |-> Zero64, s |-> chars]

BindViaText(n, fn, idx, k, chars) ==
    [err |-> IF NativeBindState(n, idx) = "DuckDBSuccess" THEN "none"
             ELSE "bind_failed",
     calls |-> <<NativeCallText(fn, idx, k, chars)>>]

\* case DuckDBTypeBoolean; c is what ToBoolean returned.
BindBoolean(unset, n, idx, c) ==
    IF ~c.ok THEN BindErr("conversion")
        ELSE IF "BindBoolean" \notin unset THEN BindVia(n, "bind_boolean", idx, "bool", c.w)
        ELSE IF "BindInt32" \notin unset
             THEN BindVia(n, "bind_int32", idx, "int32", BoolWord(c.w # Zero64))
        ELSE IF "BindInt64" \notin unset
             THEN BindVia(n, "bind_int64", idx, "int64", BoolWord(c.w # Zero64))
        ELSE BindErr("no_bind_function")

\* case DuckDBTypeDouble; c is what ToFloat64 returned.
BindDouble(unset, n, idx, c) ==
    IF ~c.ok THEN BindErr("conversion")
        ELSE IF "BindDouble" \notin unset
             THEN BindViaText(n, "bind_double", idx, "float64", PlainText(c.f))
        ELSE BindErr("no_bind_function")

\* case DuckDBTypeVarchar; chars is what ToString returned.
BindVarchar(unset, n, idx, chars) ==
    IF "BindVarchar" \notin unset
    THEN BindViaText(n, "bind_varchar", idx, "string", chars)
    ELSE BindErr("no_bind_function")

\* case DuckDBTypeDate; c is what ToDate returned.
BindDate(unset, n, idx, c) ==
    IF ~c.ok THEN BindErr("conversion")
        ELSE IF "BindDate" \notin unset THEN BindVia(n, "bind_date", idx, "int32", c.w)
        ELSE IF "BindVarchar" \notin unset
             THEN BindViaText(n, "bind_varchar", idx, "string", FormatDate(IntOf32(c.w)))
        ELSE BindErr("no_bind_function")

\* timeVal.ToTime().Format("15:04:05.999999"): the clock of the epoch plus
\* micros microseconds.
FormatMicros(micros) ==
    FormatClock(SecondOfDay(FloorDivMillion(micros).q), FloorDivMillion(micros).r)

\* case DuckDBTypeTime; c is what ToTime returned.
BindTime(unset, n, idx, c) ==
    IF ~c.ok THEN BindErr("conversion")
        ELSE IF "BindTime" \notin unset THEN BindVia(n, "bind_time", idx, "int64", c.w)
        ELSE IF "BindVarchar" \notin unset
             THEN BindViaText(n, "bind_varchar", idx, "string", FormatMicros(c.w))
        ELSE BindErr("no_bind_function")

\* t.UnixNano(): sec * 1e9 + nsec in int64 arithmetic.
UnixNano(t) ==
    Add64(MulSmall(MulSmall(MulSmall(t.w, 1000), 1000), 1000), WordOfInt(t.nsec))

\* t.Format("2006-01-02 15:04:05.999999"): the wall clock of t's location.
FormatTimestamp(t) ==
    FormatDate(IntOf32(DayOf(Add64(t.w, WordOfInt(t.off))))) \o <<" ">>
    \o FormatClock(SecondOfDay(Add64(t.w, WordOfInt(t.off))), t.nsec \div 1000)

\* The TIMESTAMP case sending milliseconds since the epoch.
BindTimestampMillis(unset, n, idx, c) ==
    IF ~c.ok THEN BindErr("conversion")
        ELSE IF "BindTimestamp" \notin unset
             THEN BindVia(n, "bind_timestamp", idx, "int64",
                          QuoRem(QuoRem(UnixNano(c.t), 1000).q, 1000).q)
        ELSE IF "BindVarchar" \notin unset
             THEN BindViaText(n, "bind_varchar", idx, "string", FormatTimestamp(c.t))
        ELSE BindErr("no_bind_function")

\* case DuckDBTypeTimestamp; c is what ToTimestamp returned.
BindTimestamp(unset, n, idx, c) ==
    IF ~c.ok THEN BindErr("conversion")
        ELSE IF "BindTimestamp" \notin unset
             THEN BindVia(n, "bind_timestamp", idx, "int64", QuoRem(UnixNano(c.t), 1000).q)
        ELSE IF "BindVarchar" \notin unset
             THEN BindViaText(n, "bind_varchar", idx, "string", FormatTimestamp(c.t))
        ELSE BindErr("no_bind_function")

\* case DuckDBTypeDecimal; c is what ToFloat64 returned.
BindDecimal(unset, n, idx, c) ==
    IF ~c.ok THEN BindErr("conversion")
        ELSE IF "BindDouble" \notin unset
             THEN BindViaText(n, "bind_double", idx, "float64", PlainText(c.f))
        ELSE IF "BindVarchar" \notin unset
             THEN BindViaText(n, "bind_varchar", idx, "string", Sprintf15g(c.f))
        ELSE BindErr("no_bind_function")

\* json.Marshal of a map with at most one entry, an integer, a boolean or a
\* string of plain characters.
JSONText(value) ==
    CASE value.k = "map" ->
          IF value.s = <<>> THEN <<"{", "}">>
          ELSE <<"{", "\"">> \o value.s \o <<"\"", ":", "1", "}">>
      [] value.k = "string" -> <<"\"">> \o value.s \o <<"\"">>
      [] value.k \in IntKinds \cup UintKinds -> Numeral(MathOf(value.k, value.w))
      [] value.k = "bool" ->
          IF value.w = Zero64 THEN <<"f", "a", "l", "s", "e">>
          ELSE <<"t", "r", "u", "e">>

\* case DuckDBTypeMap; json is what marshalToJSON returned.
BindMap(unset, n, idx, json) ==
    IF "BindVarchar" \notin unset
    THEN BindViaText(n, "bind_varchar", idx, "string", json)
    ELSE BindErr("no_bind_function")

\* The integer parameter types and the Go kind each converts to.
IntegerTypes ==
    {"TINYINT", "SMALLINT", "INTEGER", "BIGINT",
     "UTINYINT", "USMALLINT", "UINTEGER", "UBIGINT"}

KindOfType(t) ==
    CASE t = "TINYINT" -> "int8"
      [] t = "SMALLINT" -> "int16"
      [] t = "INTEGER" -> "int32"
      [] t = "BIGINT" -> "int64"
      [] t = "UTINYINT" -> "uint8"
      [] t = "USMALLINT" -> "uint16"
      [] t = "UINTEGER" -> "uint32"
      [] OTHER -> "uint64"

\* duckdb.BindParameter(db, ps, paramIdx, value, paramType): [err, calls].  n
\* is the parameter count of the statement behind ps.  The FLOAT case
\* (float32) is not followed.
BindParameter(unset, n, idx, value, paramType) ==
    CASE paramType = "TINYINT" ->
          BindTinyint(unset, n, idx, ToIntX("int8", value))
      [] paramType = "SMALLINT" ->
          BindSmallint(unset, n, idx, ToIntX("int16", value))
      [] paramType = "INTEGER" ->
          BindInteger(unset, n, idx, ToIntX("int32", value))
      [] paramType = "BIGINT" ->
          BindBigint(unset, n, idx, ToIntX("int64", value))
      [] paramType = "UTINYINT" ->
          BindUTinyint(unset, n, idx, ToIntX("uint8", value))
      [] paramType = "USMALLINT" ->
          BindUSmallint(unset, n, idx, ToIntX("uint16", value))
      [] paramType = "UINTEGER" ->
          BindUInteger(unset, n, idx, ToIntX("uint32", value))
      [] paramType = "UBIGINT" ->
          BindUBigint(unset, n, idx, ToIntX("uint64", value))
      [] paramType = "BOOLEAN" -> BindBoolean(unset, n, idx, ToBoolean(value))
      [] paramType = "DOUBLE" -> BindDouble(unset, n, idx, ToFloat64(value))
      [] paramType = "VARCHAR" -> BindVarchar(unset, n, idx, ConvertToString(value))
      [] paramType = "DATE" -> BindDate(unset, n, idx, ToDate(value))
      [] paramType = "TIME" -> BindTime(unset, n, idx, ToTime(value))
      [] paramType = "TIMESTAMP" -> BindTimestamp(unset, n, idx, ToTimestamp(value))
      [] paramType = "DECIMAL" -> BindDecimal(unset, n, idx, ToFloat64(value))
      [] paramType = "MAP" -> BindMap(unset, n, idx, JSONText(value))
      [] paramType \in {"BLOB", "INTERVAL", "LIST", "STRUCT"} -> BindErr("unsupported")
      [] OTHER -> BindErr("unsupported")


(***************************************************************************)
(* State.                                                                  *)
(***************************************************************************)
VARIABLES
    unset,      \* the function-table slots that are nil
    cvIn,       \* conversion check: the host value and the target type
    cvOut,      \* conversion check: what ToIntX or the binder returned
    db,         \* the database handle: how often duckdb_close was called on it
    conns,      \* the connections made, by id
    stmts,      \* the prepared statements made, by id
    results,    \* the result blocks the native library filled, by id
    last,       \* the last host operation and what it returned
    calls       \* the native calls the last host operation made, in order

convVars == <<unset, cvIn, cvOut>>

lifeVars == <<db, conns, stmts, results, last, calls>>

vars == <<unset, cvIn, cvOut, db, conns, stmts, results, last, calls>>

\* The most slots left unset in one function table.
MaxUnset == 1

\* The most parameters of a prepared statement.
MaxParams == 1

\* The most calls of one native release entry point on one handle.
MaxCalls == 2

\* One connection, one prepared statement and one result block are followed:
\* the host objects of one kind share no field, so what one of them goes
\* through does not depend on the others.
ConnIds == {1}

StmtIds == {1}

ResultIds == {1}

NoStmt ==
    [state |-> "none", conn |-> 0, handle |-> "nil", numParams |-> 0,
     ptypes |-> <<>>, bound |-> <<>>, destroyCalls |-> 0]

NoResult == [state |-> "none", conn |-> 0, destroyCalls |-> 0]

LifeIdle ==
    /\ db = [closeCalls |-> 0]
    /\ conns = [c \in ConnIds |-> [made |-> FALSE, disconnectCalls |-> 0]]
    /\ stmts = [s \in StmtIds |-> NoStmt]
    /\ results = [r \in ResultIds |-> NoResult]
    /\ last = [op |-> "NewDuckDB", id |-> 0, idx |-> 0, res |-> "ok"]
    /\ calls = <<>>

(***************************************************************************)
(* The conversion specification: a host value and an integer target type   *)
(* are drawn, and ToIntX or the binder is applied to them.                 *)
(***************************************************************************)
SampleMags ==
    {<<0, 0, 0, 0>>, <<0, 0, 0, 1>>, <<0, 0, 0, 100>>, <<0, 0, 0, 127>>,
     <<0, 0, 0, 128>>, <<0, 0, 0, 129>>, <<0, 0, 0, 255>>, <<0, 0, 0, 256>>,
     <<0, 0, 0, 1000>>, <<0, 0, 0, 32767>>, <<0, 0, 0, 32768>>,
     <<0, 0, 0, 32769>>, <<0, 0, 0, 65535>>, <<0, 0, 1, 0>>,
     <<0, 0, 32767, 65535>>, <<0, 0, 32768, 0>>, <<0, 0, 32768, 1>>,
     <<0, 0, 65535, 65535>>, <<0, 1, 0, 0>>,
     <<32767, 65535, 65535, 65535>>, <<32768, 0, 0, 0>>, <<32768, 0, 0, 1>>,
     <<65535, 65535, 65535, 65535>>}

Samples == {MathInt(neg, mag) : neg \in BOOLEAN, mag \in SampleMags}

HostKinds == IntKinds \cup UintKinds

\* A host integer of kind k holding m, or the decimal string of m.
IntInputs ==
    {[num |-> TRUE, m |-> x[1], value |-> IntValue(x[2], WordOf(x[1])), T |-> x[3]] :
        x \in {y \in Samples \X HostKinds \X IntegerTypes : InRange(y[1], y[2])}}

StringInputs ==
    {[num |-> TRUE, m |-> x[1], value |-> StringValue(Numeral(x[1])), T |-> x[2]] :
        x \in Samples \X IntegerTypes}

\* Values that are no integers: a boolean, a non-numeric string, a slice.
OtherInputs ==
    {[num |-> FALSE, m |-> MathInt(FALSE, Zero64), value |-> v, T |-> T] :
        v \in {BoolValue(TRUE), BoolValue(FALSE), OtherValue,
               StringValue(<<"n", "o">>), StringValue(<<>>), StringValue(<<"-">>)},
        T \in IntegerTypes}

ConvInputs == IntInputs \cup StringInputs \cup OtherInputs

ConvIdle == [phase |-> "input", ok |-> FALSE, w |-> Zero64, err |-> "none", calls |-> <<>>]

InitConv ==
    /\ unset \in {S \in SUBSET BindSlots : Cardinality(S) <= MaxUnset}
    /\ cvIn \in ConvInputs
    /\ cvOut = ConvIdle
    /\ LifeIdle

\* What is recorded of a conversion result c and of a binder result b.
Converted(c) ==
    [phase |-> "converted", ok |-> c.ok, w |-> c.w,
     err |-> IF c.ok THEN "none" ELSE "conversion", calls |-> <<>>]

Bound(b) ==
    [phase |-> "bound", ok |-> b.err = "none", w |-> Zero64,
     err |-> b.err, calls |-> b.calls]

\* convert.ToInt8 .. convert.ToUint64 applied to the drawn value.
ApplyToIntX ==
    /\ cvOut.phase = "input"
    /\ cvOut' = Converted(ToIntX(KindOfType(cvIn.T), cvIn.value))
    /\ UNCHANGED <<unset, cvIn, lifeVars>>

\* duckdb.BindParameter applied to the drawn value, as parameter 1 of a
\* one-parameter statement.
ApplyBind ==
    /\ cvOut.phase = "input"
    /\ cvOut' = Bound(BindParameter(unset, 1, 1, cvIn.value, cvIn.T))
    /\ UNCHANGED <<unset, cvIn, lifeVars>>

NextConv == ApplyToIntX \/ ApplyBind

SpecConv == InitConv /\ [][NextConv]_vars


(***************************************************************************)
(* The lifecycle specification: one database, the connections, prepared    *)
(* statements and results derived from it, and every host operation on     *)
(* them in any order.  Each native call an operation makes is recorded     *)
(* with the state of the handle it was given: "live", "released" (the      *)
(* native resource was already destroyed) or "nil".                        *)
(***************************************************************************)
\* The slots the connection and statement methods call through.
LifecycleSlots ==
    {"Prepare", "PrepareError", "DestroyPrepared", "NumParams",
     "ParameterName", "ParamType", "ClearBindings", "StatementType",
     "BindNull", "ExecutePrepared", "ResultError", "BindInt8"}

\* The function tables explored: complete, or with one slot left nil, for
\* the slots behind Close, BindParameter's type lookup, StatementType and
\* the error text of a failed Execute.
TableShapes ==
    {{}} \cup {{x} : x \in LifecycleSlots \cap
                      {"DestroyPrepared", "ParamType", "StatementType", "ResultError"}}

\* The parameter types the native library reports for a statement, and the
\* host values bound to them.
ParamTypeChoices == {"TINYINT", "BLOB"}

BindValues ==
    {NilValue, IntValue("int", <<0, 0, 0, 100>>), IntValue("int", <<0, 0, 0, 1000>>)}

Unbound == [k |-> "unbound", w |-> Zero64]

HCall(fn, kind, id, hs, idx) ==
    [fn |-> fn, kind |-> kind, id |-> id, hs |-> hs, idx |-> idx,
     k |-> "", w |-> Zero64]

\* duckdb_close and duckdb_disconnect set the handle they are given to nil.
DbHandle == IF db.closeCalls = 0 THEN "live" ELSE "nil"

ConnHandle(c) == IF conns[c].disconnectCalls = 0 THEN "live" ELSE "nil"

StmtHandle(s) ==
    IF stmts[s].handle = "nil" THEN "nil"
    ELSE IF stmts[s].destroyCalls = 0 THEN "live" ELSE "released"

ResultHandle(r) == IF results[r].destroyCalls = 0 THEN "live" ELSE "released"

LowestFree(S) == CHOOSE x \in S : \A y \in S : x <= y

FreeConns == {c \in ConnIds : ~conns[c].made}

FreeStmts == {s \in StmtIds : stmts[s].state = "none"}

FreeResults == {r \in ResultIds : results[r].state = "none"}

\* A native crash ends the process.
Alive == last.res # "crash"

Returns(op, id, idx, res, cs) ==
    /\ last' = [op |-> op, id |-> id, idx |-> idx, res |-> res]
    /\ calls' = cs

Init ==
    /\ unset \in TableShapes
    /\ cvIn = [num |-> FALSE, m |-> MathInt(FALSE, Zero64), value |-> NilValue, T |-> "TINYINT"]
    /\ cvOut = ConvIdle
    /\ LifeIdle

\* DuckDB.Connect: duckdb_connect fails on a database handle that is nil.
DuckDBConnect ==
    /\ Alive
    /\ FreeConns # {}
    /\ LET c == LowestFree(FreeConns)
       IN  /\ IF DbHandle = "live"
              THEN /\ conns' = [conns EXCEPT ![c].made = TRUE]
                   /\ Returns("DuckDBConnect", c, 0, "ok",
                              <<HCall("duckdb_connect", "db", 0, DbHandle, 0)>>)
              ELSE /\ UNCHANGED conns
                   /\ Returns("DuckDBConnect", c, 0, "failed",
                              <<HCall("duckdb_connect", "db", 0, DbHandle, 0)>>)
    /\ UNCHANGED <<unset, cvIn, cvOut, db, stmts, results>>

\* DB.CloseDB: db.Close(&db.Handle), whatever the state of the handle and
\* of the connections made from it.
CloseDB(op, id) ==
    /\ db.closeCalls < MaxCalls
    /\ db' = [db EXCEPT !.closeCalls = @ + 1]
    /\ Returns(op, id, 0, "ok", <<HCall("duckdb_close", "db", 0, DbHandle, 0)>>)
    /\ UNCHANGED <<unset, cvIn, cvOut, conns, stmts, results>>

\* DuckDB.Close.
DuckDBClose == Alive /\ CloseDB("DuckDBClose", 0)

\* The driver's Conn.Close: c.db.Close() and nothing else.
ConnClose(c) == Alive /\ conns[c].made /\ CloseDB("ConnClose", c)

\* DuckDBConnection.Close: c.db.Disconnect(&c.handle).
DuckDBConnectionClose(c) ==
    /\ Alive
    /\ conns[c].made
    /\ conns[c].disconnectCalls < MaxCalls
    /\ conns' = [conns EXCEPT ![c].disconnectCalls = @ + 1]
    /\ Returns("DuckDBConnectionClose", c, 0, "ok",
               <<HCall("duckdb_disconnect", "conn", c, ConnHandle(c), 0)>>)
    /\ UNCHANGED <<unset, cvIn, cvOut, db, stmts, results>>

\* Query handing the caller a Result object for the block of a failed query
\* together with the error.
QueryOutcomeKeepsFailed(state, c, r) ==
    [res |-> IF state = "DuckDBSuccess" THEN "ok" ELSE "failed",
     kept |-> TRUE, destroyed |-> 0,
     calls |-> <<HCall("duckdb_query", "conn", c, "live", 0)>>]

\* What Query does with the state duckdb_query returned: the result block
\* is wrapped and returned on success, and on failure only an error naming
\* the SQL text is returned.  [res, kept, calls]: kept says whether a host
\* Result object holds the block afterwards.
QueryOutcome(state, c, r) ==
    IF state = "DuckDBSuccess"
    THEN [res |-> "ok", kept |-> TRUE, destroyed |-> 0,
          calls |-> <<HCall("duckdb_query", "conn", c, "live", 0)>>]
    ELSE [res |-> "failed", kept |-> FALSE, destroyed |-> 0,
          calls |-> <<HCall("duckdb_query", "conn", c, "live", 0)>>]

\* DuckDBConnection.Query.  duckdb_query fills a result block whether it
\* succeeds or fails; on a nil connection it dereferences a null pointer.
DuckDBConnectionQuery(c) ==
    /\ Alive
    /\ conns[c].made
    /\ FreeResults # {}
    /\ LET r == LowestFree(FreeResults)
       IN  IF ConnHandle(c) = "live"
           THEN \E state \in {"DuckDBSuccess", "DuckDBError"} :
                  LET o == QueryOutcome(state, c, r)
                  IN  /\ results' = [results EXCEPT ![r] =
                            [state |-> IF o.kept THEN "returned" ELSE "dropped",
                             conn |-> c, destroyCalls |-> o.destroyed]]
                      /\ Returns("DuckDBConnectionQuery", r, 0, o.res, o.calls)
           ELSE \E out \in {"failed", "crash"} :
                  /\ UNCHANGED results
                  /\ Returns("DuckDBConnectionQuery", 0, 0, out,
                             <<HCall("duckdb_query", "conn", c, ConnHandle(c), 0)>>)
    /\ UNCHANGED <<unset, cvIn, cvOut, db, conns, stmts>>

\* DuckDBConnection.Execute: Query, and the result closed at once.
DuckDBConnectionExecute(c) ==
    /\ Alive
    /\ conns[c].made
    /\ FreeResults # {}
    /\ LET r == LowestFree(FreeResults)
       IN  IF ConnHandle(c) = "live"
           THEN \E state \in {"DuckDBSuccess", "DuckDBError"} :
                  LET o == QueryOutcome(state, c, r)
                  IN  /\ results' = [results EXCEPT ![r] =
                            [state |-> "dropped", conn |-> c,
                             destroyCalls |-> IF o.kept THEN o.destroyed + 1
                                              ELSE o.destroyed]]
                      /\ Returns("DuckDBConnectionExecute", r, 0, o.res,
                                 IF o.kept
                                 THEN Append(o.calls,
                                        HCall("duckdb_destroy_result", "result", r, "live", 0))
                                 ELSE o.calls)
           ELSE \E out \in {"failed", "crash"} :
                  /\ UNCHANGED results
                  /\ Returns("DuckDBConnectionExecute", 0, 0, out,
                             <<HCall("duckdb_query", "conn", c, ConnHandle(c), 0)>>)
    /\ UNCHANGED <<unset, cvIn, cvOut, db, conns, stmts>>


\* The failed statement handed back first to duckdb_destroy_prepare and then
\* to duckdb_prepare_error: the destroy call sets the handle to nil, so the
\* message would be asked of a nil handle.
FailedPrepareCallsDestroyFirst(s, readable, destroys) ==
    (IF destroys
     THEN <<HCall("duckdb_destroy_prepare", "stmt", s, "live", 0)>>
     ELSE <<>>)
    \o (IF readable
        THEN <<HCall("duckdb_prepare_error", "stmt", s,
                     IF destroys THEN "nil" ELSE "live", 0)>>
        ELSE <<>>)

\* The native calls Prepare makes on the statement of a failed duckdb_prepare:
\* the error text is read when PrepareError is set, and the statement is then
\* destroyed when DestroyPrepared is set too.
FailedPrepareCalls(s, readable, destroys) ==
    (IF readable
     THEN <<HCall("duckdb_prepare_error", "stmt", s, "live", 0)>>
     ELSE <<>>)
    \o (IF destroys
        THEN <<HCall("duckdb_destroy_prepare", "stmt", s, "live", 0)>>
        ELSE <<>>)

\* DuckDBConnection.Prepare.  duckdb_prepare returns an error and leaves
\* the statement nil when the connection is nil; otherwise it allocates a
\* statement, which on failure holds the error text.
DuckDBConnectionPrepare(c) ==
    /\ Alive
    /\ conns[c].made
    /\ FreeStmts # {}
    /\ LET s == LowestFree(FreeStmts)
           prep == HCall("duckdb_prepare", "conn", c, ConnHandle(c), 0)
       IN  IF "Prepare" \in unset
           THEN /\ UNCHANGED stmts
                /\ Returns("DuckDBConnectionPrepare", 0, 0, "unavailable", <<>>)
           ELSE IF ConnHandle(c) # "live"
           THEN /\ UNCHANGED stmts
                /\ Returns("DuckDBConnectionPrepare", 0, 0, "failed", <<prep>>)
           ELSE \/ \* the native call fails: read the error, destroy the statement
                   LET readable == "PrepareError" \notin unset
                       destroys == readable /\ "DestroyPrepared" \notin unset
                   IN  /\ stmts' = [stmts EXCEPT ![s] =
                             [NoStmt EXCEPT !.state = "failed", !.conn = c,
                                            !.destroyCalls = IF destroys THEN 1 ELSE 0]]
                       /\ Returns("DuckDBConnectionPrepare", s, 0, "failed",
                             <<prep>> \o FailedPrepareCalls(s, readable, destroys))
                \/ \* the native call succeeds: read the parameter count
                   \E n \in 0..MaxParams : \E t \in ParamTypeChoices :
                     LET types == [i \in 1..n |-> t]
                     IN
                       /\ stmts' = [stmts EXCEPT ![s] =
                             [state |-> "open", conn |-> c, handle |-> "set",
                              numParams |-> IF "NumParams" \in unset THEN 0 ELSE n,
                              ptypes |-> types,
                              bound |-> [i \in 1..n |-> Unbound],
                              destroyCalls |-> 0]]
                       /\ Returns("DuckDBConnectionPrepare", s, 0, "ok",
                             <<prep>>
                             \o (IF "NumParams" \in unset THEN <<>>
                                 ELSE <<HCall("duckdb_nparams", "stmt", s, "live", 0)>>))
    /\ UNCHANGED <<unset, cvIn, cvOut, db, conns, results>>

\* The statements the host holds an object for.
HeldStmts == {s \in StmtIds : stmts[s].state = "open"}

\* The 0-based index the metadata methods hand to the native library for
\* the 1-based parameter paramIdx.
MetadataIndex(paramIdx) == paramIdx - 1

\* PreparedStatement.ParameterName.
PreparedStatementParameterName(s, paramIdx) ==
    /\ Alive
    /\ s \in HeldStmts
    /\ IF stmts[s].handle = "nil"
       THEN Returns("ParameterName", s, paramIdx, "closed", <<>>)
       ELSE IF "ParameterName" \in unset
       THEN Returns("ParameterName", s, paramIdx, "unavailable", <<>>)
       ELSE Returns("ParameterName", s, paramIdx, "ok",
                <<HCall("duckdb_parameter_name", "stmt", s, StmtHandle(s),
                        MetadataIndex(paramIdx))>>)
    /\ UNCHANGED <<unset, cvIn, cvOut, db, conns, stmts, results>>

\* PreparedStatement.ParameterType.
PreparedStatementParameterType(s, paramIdx) ==
    /\ Alive
    /\ s \in HeldStmts
    /\ IF stmts[s].handle = "nil"
       THEN Returns("ParameterType", s, paramIdx, "closed", <<>>)
       ELSE IF "ParamType" \in unset
       THEN Returns("ParameterType", s, paramIdx, "unavailable", <<>>)
       ELSE Returns("ParameterType", s, paramIdx, "ok",
                <<HCall("duckdb_param_type", "stmt", s, StmtHandle(s),
                        MetadataIndex(paramIdx))>>)
    /\ UNCHANGED <<unset, cvIn, cvOut, db, conns, stmts, results>>

\* PreparedStatement.ClearBindings.
PreparedStatementClearBindings(s) ==
    /\ Alive
    /\ s \in HeldStmts
    /\ IF stmts[s].handle = "nil"
       THEN /\ UNCHANGED stmts
            /\ Returns("ClearBindings", s, 0, "closed", <<>>)
       ELSE IF "ClearBindings" \in unset
       THEN /\ UNCHANGED stmts
            /\ Returns("ClearBindings", s, 0, "unavailable", <<>>)
       ELSE /\ stmts' = [stmts EXCEPT ![s].bound = [i \in DOMAIN @ |-> Unbound]]
            /\ Returns("ClearBindings", s, 0, "ok",
                   <<HCall("duckdb_clear_bindings", "stmt", s, StmtHandle(s), 0)>>)
    /\ UNCHANGED <<unset, cvIn, cvOut, db, conns, results>>

\* PreparedStatement.StatementType: the slot is called with ps.handle as it
\* is; calling a nil slot panics.
PreparedStatementStatementType(s) ==
    /\ Alive
    /\ s \in HeldStmts
    /\ IF "StatementType" \in unset
       THEN Returns("StatementType", s, 0, "panic", <<>>)
       ELSE Returns("StatementType", s, 0, "ok",
                <<HCall("duckdb_prepared_statement_type", "stmt", s, StmtHandle(s), 0)>>)
    /\ UNCHANGED <<unset, cvIn, cvOut, db, conns, stmts, results>>

\* PreparedStatement.Close without the nil test on ps.handle.
PreparedStatementCloseUnguarded(s) ==
    /\ Alive
    /\ s \in HeldStmts
    /\ stmts[s].destroyCalls < MaxCalls
    /\ stmts' = [stmts EXCEPT ![s].handle = "nil", ![s].destroyCalls = @ + 1]
    /\ Returns("PreparedStatementClose", s, 0, "ok",
           <<HCall("duckdb_destroy_prepare", "stmt", s, StmtHandle(s), 0)>>)
    /\ UNCHANGED <<unset, cvIn, cvOut, db, conns, results>>

\* PreparedStatement.Close.
PreparedStatementClose(s) ==
    /\ Alive
    /\ s \in HeldStmts
    /\ IF stmts[s].handle = "nil"
       THEN /\ UNCHANGED stmts
            /\ Returns("PreparedStatementClose", s, 0, "ok", <<>>)
       ELSE IF "DestroyPrepared" \in unset
       THEN /\ UNCHANGED stmts
            /\ Returns("PreparedStatementClose", s, 0, "unavailable", <<>>)
       ELSE /\ stmts' = [stmts EXCEPT ![s].handle = "nil", ![s].destroyCalls = @ + 1]
            /\ Returns("PreparedStatementClose", s, 0, "ok",
                   <<HCall("duckdb_destroy_prepare", "stmt", s, StmtHandle(s), 0)>>)
    /\ UNCHANGED <<unset, cvIn, cvOut, db, conns, results>>


\* duckdb_param_type(stmt, index): the type of the parameter the index
\* names, DUCKDB_TYPE_INVALID when it names none.  The driver tests bind a
\* string to parameter 3 of a three-parameter statement and expect success,
\* which BindParameter gives only if duckdb_param_type(stmt, 3) is a valid
\* type: the native index counts from 1.
NativeParamType(s, index) ==
    IF index >= 1 /\ index <= Len(stmts[s].ptypes)
    THEN stmts[s].ptypes[index]
    ELSE "INVALID"

\* The index BindParameter hands to duckdb_param_type when it looks up the
\* target type of parameter paramIdx.
ParamTypeLookupIndex(paramIdx) == paramIdx

StmtCall(s, c) ==
    [fn |-> c.fn, kind |-> "stmt", id |-> s, hs |-> StmtHandle(s), idx |-> c.idx,
     k |-> c.k, w |-> c.w]

RECURSIVE StmtCalls(_, _)
StmtCalls(s, cs) ==
    IF cs = <<>> THEN <<>> ELSE <<StmtCall(s, Head(cs))>> \o StmtCalls(s, Tail(cs))

\* Whether BindParameter looks the parameter's type up: the slot is set and
\* paramIdx - 1 is within the parameter count the statement holds.
LooksUpType(s, paramIdx) ==
    /\ "ParamType" \notin unset
    /\ paramIdx - 1 >= 0
    /\ paramIdx - 1 < stmts[s].numParams

\* The end of PreparedStatement.BindParameter for a value that is not nil
\* and a valid type: b is what duckdb.BindParameter returned.
BindParameterBound(s, paramIdx, lookup, b) ==
    /\ stmts' = IF b.err = "none"
                THEN [stmts EXCEPT ![s].bound[paramIdx] =
                         [k |-> b.calls[1].k, w |-> b.calls[1].w]]
                ELSE stmts
    /\ Returns("BindParameter", s, paramIdx,
           IF b.err = "none" THEN "ok" ELSE b.err,
           lookup \o StmtCalls(s, b.calls))

\* BindParameterTyped without the nil test: a nil value is handed to the
\* binder of the parameter's type like any other value.
BindParameterTypedNoNil(s, paramIdx, value, paramType, lookup) ==
    IF stmts[s].handle = "nil"
    THEN /\ UNCHANGED stmts
         /\ Returns("BindParameter", s, paramIdx, "closed", <<>>)
    ELSE IF "BindNull" \in unset
    THEN /\ UNCHANGED stmts
         /\ Returns("BindParameter", s, paramIdx, "unavailable", <<>>)
    ELSE IF paramType = "INVALID"
    THEN /\ UNCHANGED stmts
         /\ Returns("BindParameter", s, paramIdx, "type_invalid", lookup)
    ELSE BindParameterBound(s, paramIdx, lookup,
             BindParameter(unset, Len(stmts[s].ptypes), paramIdx, value, paramType))

\* PreparedStatement.BindParameter once the type lookup, if any, returned
\* paramType; lookup is the native call it made.
BindParameterTyped(s, paramIdx, value, paramType, lookup) ==
    IF stmts[s].handle = "nil"
    THEN /\ UNCHANGED stmts
         /\ Returns("BindParameter", s, paramIdx, "closed", <<>>)
    ELSE IF "BindNull" \in unset
    THEN /\ UNCHANGED stmts
         /\ Returns("BindParameter", s, paramIdx, "unavailable", <<>>)
    ELSE IF value = NilValue
    THEN /\ stmts' = IF NativeBindState(Len(stmts[s].ptypes), paramIdx) = "DuckDBSuccess"
                     THEN [stmts EXCEPT ![s].bound[paramIdx] =
                              [k |-> "null", w |-> Zero64]]
                     ELSE stmts
         /\ Returns("BindParameter", s, paramIdx,
                IF NativeBindState(Len(stmts[s].ptypes), paramIdx) = "DuckDBSuccess"
                THEN "ok"
                ELSE "bind_null_failed",
                lookup \o <<HCall("duckdb_bind_null", "stmt", s, StmtHandle(s),
                                  paramIdx)>>)
    ELSE IF paramType = "INVALID"
    THEN /\ UNCHANGED stmts
         /\ Returns("BindParameter", s, paramIdx, "type_invalid", lookup)
    ELSE BindParameterBound(s, paramIdx, lookup,
             BindParameter(unset, Len(stmts[s].ptypes), paramIdx, value, paramType))

\* PreparedStatement.BindParameter.
PreparedStatementBindParameter(s, paramIdx, value) ==
    /\ Alive
    /\ s \in HeldStmts
    /\ BindParameterTyped(s, paramIdx, value,
           IF LooksUpType(s, paramIdx)
           THEN NativeParamType(s, ParamTypeLookupIndex(paramIdx))
           ELSE "INVALID",
           IF LooksUpType(s, paramIdx)
           THEN <<HCall("duckdb_param_type", "stmt", s, StmtHandle(s),
                        ParamTypeLookupIndex(paramIdx))>>
           ELSE <<>>)
    /\ UNCHANGED <<unset, cvIn, cvOut, db, conns, results>>

\* PreparedStatement.Execute.  duckdb_execute_prepared fills a result block
\* whether it succeeds or fails, and fails when a parameter has no value.
PreparedStatementExecute(s) ==
    /\ Alive
    /\ s \in HeldStmts
    /\ FreeResults # {}
    /\ LET r == LowestFree(FreeResults)
           exec == HCall("duckdb_execute_prepared", "stmt", s, StmtHandle(s), 0)
       IN  IF stmts[s].handle = "nil"
           THEN /\ UNCHANGED results
                /\ Returns("PreparedStatementExecute", s, 0, "closed", <<>>)
           ELSE IF "ExecutePrepared" \in unset
           THEN /\ UNCHANGED results
                /\ Returns("PreparedStatementExecute", s, 0, "unavailable", <<>>)
           ELSE \/ /\ \A i \in DOMAIN stmts[s].bound : stmts[s].bound[i] # Unbound
                   /\ results' = [results EXCEPT ![r] =
                         [state |-> "returned", conn |-> stmts[s].conn,
                          destroyCalls |-> 0]]
                   /\ Returns("PreparedStatementExecute", s, 0, "ok", <<exec>>)
                \/ /\ results' = [results EXCEPT ![r] =
                         [state |-> "dropped", conn |-> stmts[s].conn,
                          destroyCalls |-> 0]]
                   /\ Returns("PreparedStatementExecute", s, 0, "failed",
                         IF "ResultError" \in unset THEN <<exec>>
                         ELSE <<exec, HCall("duckdb_result_error", "result", r, "live", 0)>>)
    /\ UNCHANGED <<unset, cvIn, cvOut, db, conns, stmts>>

\* The results the host holds an object for.
HeldResults == {r \in ResultIds : results[r].state = "returned"}

\* Result.Close: r.Db.DestroyResult(&r.Raw).
ResultClose(r) ==
    /\ Alive
    /\ r \in HeldResults
    /\ results[r].destroyCalls < MaxCalls
    /\ results' = [results EXCEPT ![r].destroyCalls = @ + 1]
    /\ Returns("ResultClose", r, 0, "ok",
           <<HCall("duckdb_destroy_result", "result", r, ResultHandle(r), 0)>>)
    /\ UNCHANGED <<unset, cvIn, cvOut, db, conns, stmts>>

\* The accessors of Result: GetColumnCount, GetRowCount, GetColumnName,
\* GetValueString and IsNull each call their entry point on &r.Raw.
AccessorFns ==
    {"duckdb_column_count", "duckdb_row_count", "duckdb_column_name",
     "duckdb_value_varchar", "duckdb_value_is_null"}

ResultAccessor(r, fn) ==
    /\ Alive
    /\ r \in HeldResults
    /\ Returns("ResultAccessor", r, 0, "ok",
           <<HCall(fn, "result", r, ResultHandle(r), 0)>>)
    /\ UNCHANGED <<unset, cvIn, cvOut, db, conns, stmts, results>>

\* The parameter positions callers try: one below and one above the range.
ParamPositions == 0..(MaxParams + 1)

Next ==
    \/ DuckDBConnect
    \/ DuckDBClose
    \/ \E c \in ConnIds : ConnClose(c)
    \/ \E c \in ConnIds : DuckDBConnectionClose(c)
    \/ \E c \in ConnIds : DuckDBConnectionQuery(c)
    \/ \E c \in ConnIds : DuckDBConnectionExecute(c)
    \/ \E c \in ConnIds : DuckDBConnectionPrepare(c)
    \/ \E s \in StmtIds, p \in ParamPositions : PreparedStatementParameterName(s, p)
    \/ \E s \in StmtIds, p \in ParamPositions : PreparedStatementParameterType(s, p)
    \/ \E s \in StmtIds : PreparedStatementClearBindings(s)
    \/ \E s \in StmtIds : PreparedStatementStatementType(s)
    \/ \E s \in StmtIds : PreparedStatementClose(s)
    \/ \E s \in StmtIds, p \in ParamPositions, v \in BindValues :
          PreparedStatementBindParameter(s, p, v)
    \/ \E s \in StmtIds : PreparedStatementExecute(s)
    \/ \E r \in ResultIds : ResultClose(r)
    \/ \E r \in ResultIds, fn \in AccessorFns : ResultAccessor(r, fn)

Spec == Init /\ [][Next]_vars


(***************************************************************************)
(* Result cells and the value accessors of internal/duckdb Result.  A cell *)
(* is the column's type, whether the stored value is SQL NULL, and the     *)
(* native encoding of a stored value: a word (days for DATE, microseconds  *)
(* for TIME and TIMESTAMP) or the characters of a VARCHAR.                 *)
(***************************************************************************)
CellTypes ==
    {"BOOLEAN", "DATE", "TIME", "TIMESTAMP", "VARCHAR"} \cup IntegerTypes

Cell(t, w, s) == [type |-> t, null |-> FALSE, w |-> w, s |-> s]

NullCell(t) == [type |-> t, null |-> TRUE, w |-> Zero64, s |-> <<>>]

\* The slots of Result the accessors call through.
DecodeSlots ==
    {"ValueNull", "ValueString", "ValueDate", "ValueTime", "ValueTimestamp",
     "ValueBoolean", "ValueInt8", "ValueInt16", "ValueInt32", "ValueInt64",
     "ValueUint8", "ValueUint16", "ValueUint32", "ValueUint64"}

\* duckdb_value_is_null on a cell.
NativeValueNull(cell) == cell.null

\* duckdb_value_boolean .. duckdb_value_timestamp on a cell of the accessor's
\* type: the stored word, and the zero value for a NULL cell.
NativeValue(cell) == IF cell.null THEN Zero64 ELSE cell.w

\* duckdb_value_string on a cell: a pointer to the characters, and the null
\* pointer for a NULL cell.
NativeValueString(cell) ==
    IF cell.null THEN [nil |-> TRUE, s |-> <<>>] ELSE [nil |-> FALSE, s |-> cell.s]

\* What an accessor returned: (value, ok) and the native calls it made.  In
\* the accessors below nils is the set of slots of the Result that are nil.
NoValue(cs) ==
    [present |-> FALSE, w |-> Zero64, nsec |-> 0, s |-> <<>>, calls |-> cs]

WordValue(w, cs) ==
    [present |-> TRUE, w |-> w, nsec |-> 0, s |-> <<>>, calls |-> cs]

TimeValue(t, cs) ==
    [present |-> TRUE, w |-> t.sec, nsec |-> t.nsec, s |-> <<>>, calls |-> cs]

GetValueString(nils, cell) ==
    IF NativeValueString(cell).nil THEN NoValue(<<"duckdb_value_string">>)
    ELSE [present |-> TRUE, w |-> Zero64, nsec |-> 0,
          s |-> NativeValueString(cell).s, calls |-> <<"duckdb_value_string">>]

\* GetValueDate taking the day offset for a number of seconds.
GetValueDateAsSeconds(nils, cell) ==
    IF "ValueDate" \in nils THEN NoValue(<<>>)
    ELSE IF Conv("int32", NativeValue(cell)) = Zero64
         THEN NoValue(<<"duckdb_value_date">>)
    ELSE TimeValue(TimeUnix(Conv("int32", NativeValue(cell)), 0),
                   <<"duckdb_value_date">>)

GetValueDate(nils, cell) ==
    IF "ValueDate" \in nils THEN NoValue(<<>>)
    ELSE IF Conv("int32", NativeValue(cell)) = Zero64
         THEN NoValue(<<"duckdb_value_date">>)
    ELSE TimeValue(TimeUnix(MulDaySeconds(Conv("int32", NativeValue(cell))), 0),
                   <<"duckdb_value_date">>)

\* The time.Time returned is the clock value on the current UTC date; w is
\* the microseconds since that date's midnight.
GetValueTime(nils, cell) ==
    IF "ValueTime" \in nils THEN NoValue(<<>>)
    ELSE IF NativeValue(cell) = Zero64 THEN NoValue(<<"duckdb_value_time">>)
    ELSE WordValue(NativeValue(cell), <<"duckdb_value_time">>)

GetValueTimestamp(nils, cell) ==
    IF "ValueTimestamp" \in nils THEN NoValue(<<>>)
    ELSE IF NativeValue(cell) = Zero64 THEN NoValue(<<"duckdb_value_timestamp">>)
    ELSE TimeValue(TimeUnix(QuoRemMillion(NativeValue(cell)).q,
                            QuoRemMillion(NativeValue(cell)).r * 1000),
                   <<"duckdb_value_timestamp">>)

\* GetValueChecked without the NULL test: the typed entry point is called
\* whatever the cell holds.
GetValueUnchecked(nils, cell, slot, fn, k) ==
    IF slot \in nils THEN NoValue(<<>>)
    ELSE WordValue(Conv(k, NativeValue(cell)), <<fn>>)

\* The body shared by GetValueBoolean and GetValueInt8 .. GetValueUint64:
\* the slot test, the NULL test when ValueNull is set, the typed call.
GetValueChecked(nils, cell, slot, fn, k) ==
    IF slot \in nils THEN NoValue(<<>>)
    ELSE IF "ValueNull" \in nils THEN WordValue(Conv(k, NativeValue(cell)), <<fn>>)
    ELSE IF NativeValueNull(cell) THEN NoValue(<<"duckdb_value_is_null">>)
    ELSE WordValue(Conv(k, NativeValue(cell)), <<"duckdb_value_is_null", fn>>)

GetValueBoolean(nils, cell) ==
    GetValueChecked(nils, cell, "ValueBoolean", "duckdb_value_boolean", "uint8")

GetValueInt8(nils, cell) ==
    GetValueChecked(nils, cell, "ValueInt8", "duckdb_value_int8", "int8")

GetValueInt16(nils, cell) ==
    GetValueChecked(nils, cell, "ValueInt16", "duckdb_value_int16", "int16")

GetValueInt32(nils, cell) ==
    GetValueChecked(nils, cell, "ValueInt32", "duckdb_value_int32", "int32")

GetValueInt64(nils, cell) ==
    GetValueChecked(nils, cell, "ValueInt64", "duckdb_value_int64", "int64")

GetValueUint8(nils, cell) ==
    GetValueChecked(nils, cell, "ValueUint8", "duckdb_value_uint8", "uint8")

GetValueUint16(nils, cell) ==
    GetValueChecked(nils, cell, "ValueUint16", "duckdb_value_uint16", "uint16")

GetValueUint32(nils, cell) ==
    GetValueChecked(nils, cell, "ValueUint32", "duckdb_value_uint32", "uint32")

GetValueUint64(nils, cell) ==
    GetValueChecked(nils, cell, "ValueUint64", "duckdb_value_uint64", "uint64")

\* Result.IsNull: present stands for the boolean returned.
IsNull(nils, cell) ==
    IF "ValueNull" \in nils
    THEN [present |-> NativeValueString(cell).nil, w |-> Zero64, nsec |-> 0,
          s |-> <<>>, calls |-> <<"duckdb_value_string">>]
    ELSE [present |-> NativeValueNull(cell), w |-> Zero64, nsec |-> 0,
          s |-> <<>>, calls |-> <<"duckdb_value_is_null">>]

\* The accessor that decodes a column of type t.
AccessorOf(t) ==
    CASE t = "BOOLEAN" -> "GetValueBoolean"
      [] t = "TINYINT" -> "GetValueInt8"
      [] t = "SMALLINT" -> "GetValueInt16"
      [] t = "INTEGER" -> "GetValueInt32"
      [] t = "BIGINT" -> "GetValueInt64"
      [] t = "UTINYINT" -> "GetValueUint8"
      [] t = "USMALLINT" -> "GetValueUint16"
      [] t = "UINTEGER" -> "GetValueUint32"
      [] t = "UBIGINT" -> "GetValueUint64"
      [] t = "DATE" -> "GetValueDate"
      [] t = "TIME" -> "GetValueTime"
      [] t = "TIMESTAMP" -> "GetValueTimestamp"
      [] OTHER -> "GetValueString"

ValueAccessors == {AccessorOf(t) : t \in CellTypes}

GetValue(op, nils, cell) ==
    CASE op = "GetValueBoolean" -> GetValueBoolean(nils, cell)
      [] op = "GetValueInt8" -> GetValueInt8(nils, cell)
      [] op = "GetValueInt16" -> GetValueInt16(nils, cell)
      [] op = "GetValueInt32" -> GetValueInt32(nils, cell)
      [] op = "GetValueInt64" -> GetValueInt64(nils, cell)
      [] op = "GetValueUint8" -> GetValueUint8(nils, cell)
      [] op = "GetValueUint16" -> GetValueUint16(nils, cell)
      [] op = "GetValueUint32" -> GetValueUint32(nils, cell)
      [] op = "GetValueUint64" -> GetValueUint64(nils, cell)
      [] op = "GetValueDate" -> GetValueDate(nils, cell)
      [] op = "GetValueTime" -> GetValueTime(nils, cell)
      [] op = "GetValueTimestamp" -> GetValueTimestamp(nils, cell)
      [] op = "GetValueString" -> GetValueString(nils, cell)
      [] OTHER -> IsNull(nils, cell)

(***************************************************************************)
(* The decoding specification: a stored cell is drawn and one accessor is  *)
(* applied to it, the accessor of the cell's type or, on a NULL cell, any   *)
(* accessor.                                                               *)
(***************************************************************************)
SmallWords == {Zero64, One64, <<0, 0, 0, 100>>}

CellWords(t) ==
    CASE t = "BOOLEAN" -> {Zero64, One64}
      [] t = "DATE" ->
          {Zero64, One64, <<65535, 65535, 65535, 65535>>, <<0, 0, 0, 365>>,
           <<0, 0, 0, 20215>>, <<65535, 65535, 65533, 61468>>, <<0, 0, 44, 49312>>}
      [] t = "TIME" ->
          {Zero64, One64, <<0, 10, 35802, 7168>>, <<0, 20, 7639, 24575>>}
      [] t = "TIMESTAMP" ->
          {Zero64, One64, <<65535, 65535, 65535, 65535>>,
           <<65535, 65535, 65513, 7328>>, <<6, 13450, 62951, 48128>>,
           <<6, 13450, 62953, 40512>>}
      [] t \in {"TINYINT", "SMALLINT", "INTEGER", "BIGINT"} ->
          SmallWords \cup {<<65535, 65535, 65535, 65535>>, MinValue(KindOfType(t)),
                           MaxValue(KindOfType(t))}
      [] OTHER -> SmallWords \cup {MaxValue(KindOfType(t))}

CellStrings == {<<>>, <<"a">>, <<"N", "U", "L", "L">>}

DecodeCells ==
    {NullCell(t) : t \in CellTypes}
    \cup {Cell("VARCHAR", Zero64, s) : s \in CellStrings}
    \cup UNION {{Cell(t, w, <<>>) : w \in CellWords(t)} : t \in CellTypes \ {"VARCHAR"}}

DecodeIdle ==
    [phase |-> "cell", op |-> "none", present |-> FALSE, w |-> Zero64,
     nsec |-> 0, s |-> <<>>, calls |-> <<>>]

\* GetValueString calls through ValueString without a test, so a Result that
\* is read has that slot set.
InitDecode ==
    /\ unset \in {S \in SUBSET (DecodeSlots \ {"ValueString"}) : Cardinality(S) <= MaxUnset}
    /\ cvIn \in {[cell |-> c] : c \in DecodeCells}
    /\ cvOut = DecodeIdle
    /\ LifeIdle

Decoded(op, v) ==
    [phase |-> "decoded", op |-> op, present |-> v.present, w |-> v.w,
     nsec |-> v.nsec, s |-> v.s, calls |-> v.calls]

\* One call of a value accessor on the drawn cell.
ResultGetValue(op) ==
    /\ cvOut.phase = "cell"
    /\ cvIn.cell.null \/ op = AccessorOf(cvIn.cell.type)
    /\ cvOut' = Decoded(op, GetValue(op, unset, cvIn.cell))
    /\ UNCHANGED <<unset, cvIn, lifeVars>>

ResultIsNull ==
    /\ cvOut.phase = "cell"
    /\ cvOut' = Decoded("IsNull", IsNull(unset, cvIn.cell))
    /\ UNCHANGED <<unset, cvIn, lifeVars>>

NextDecode == (\E op \in ValueAccessors : ResultGetValue(op)) \/ ResultIsNull

SpecDecode == InitDecode /\ [][NextDecode]_vars

(***************************************************************************)
(* The binding specification: a host value and a parameter type are drawn  *)
(* and the binder is applied to them; when the bind succeeded with an      *)
(* entry point that takes the column's own encoding, the statement is      *)
(* executed and the stored cell is decoded with the accessor of the type.  *)
(***************************************************************************)
DeclinedTypes == {"BLOB", "INTERVAL", "LIST", "STRUCT"}

BoundTypes == CellTypes \cup {"DOUBLE", "DECIMAL", "MAP"} \cup DeclinedTypes

\* Sample instants: 1970-01-01 00:00:00, 2025-05-07 12:34:56 with and
\* without a fraction and in a location nine hours east, 2025-05-07
\* 00:00:00, 1969-12-31 23:59:58.5, 2500-01-01 00:00:00, and 1970-01-02
\* 00:00:00.
SampleTimes ==
    {GoTime(Zero64, 0, 0),
     GoTime(<<0, 0, 1, 20864>>, 0, 0),
     GoTime(<<0, 0, 26651, 21360>>, 0, 0),
     GoTime(<<0, 0, 26651, 21360>>, 123456000, 0),
     GoTime(<<0, 0, 26651, 21360>>, 0, 32400),
     GoTime(<<0, 0, 26650, 41600>>, 0, 0),
     GoTime(<<65535, 65535, 65535, 65534>>, 500000000, 0),
     GoTime(<<0, 3, 58598, 45184>>, 0, 0)}

SampleFloats ==
    {<<"0">>, <<"0", ".", "5">>, <<"1", "0", "0">>, <<"-", "1", "2", ".", "5">>,
     <<"0", ".", "1", "2", "3", "4", "5", "6", "7", "8", "9", "0", "1", "2", "3", "4", "5">>,
     <<"0", ".", "1", "2", "3", "4", "5", "6", "7", "8", "9", "0", "1", "2", "3", "4", "5", "6">>,
     <<"0", ".", "3", "0", "0", "0", "0", "0", "0", "0", "0", "0", "0", "0", "0", "0", "0", "0", "4">>,
     <<"0", ".", "9", "9", "9", "9", "9", "9", "9", "9", "9", "9", "9", "9", "9", "9", "9", "9">>}

SampleStrings ==
    {<<>>, <<"a">>, <<"1">>, <<" ", "Y", "E", "S", " ">>, <<"n", "o">>,
     <<"2", "0", "2", "5", "-", "0", "5", "-", "0", "7">>,
     <<"1", "9", "7", "0", "-", "0", "1", "-", "0", "1">>,
     <<"1", "9", "7", "0", "-", "0", "1", "-", "0", "2">>,
     <<"2", "0", "2", "5", "-", "0", "2", "-", "3", "0">>}

SampleInts ==
    {IntValue(k, w) : k \in {"int", "int8", "int32", "int64", "uint8"}, w \in SmallWords}

\* The values drawn for a parameter of type T.  Strings are drawn only for
\* the types whose conversion of a string is followed.
ValuesFor(T) ==
    CASE T = "BOOLEAN" ->
          {BoolValue(TRUE), BoolValue(FALSE), OtherValue} \cup SampleInts
          \cup {StringValue(s) : s \in SampleStrings}
      [] T \in IntegerTypes -> SampleInts \cup {StringValue(<<"1">>), OtherValue}
      [] T = "VARCHAR" ->
          {StringValue(s) : s \in SampleStrings} \cup SampleInts \cup {BoolValue(TRUE)}
           \cup {FloatValue(s) : s \in SampleFloats}
      [] T = "DATE" ->
          {DateValue(w) : w \in CellWords("DATE")} \cup SampleTimes \cup SampleInts
          \cup {StringValue(s) : s \in SampleStrings} \cup {OtherValue}
      [] T = "TIME" ->
          {ClockValue(w) : w \in CellWords("TIME")} \cup SampleTimes \cup SampleInts
          \cup {OtherValue}
      [] T = "TIMESTAMP" -> SampleTimes \cup SampleInts \cup {OtherValue}
      [] T \in {"DOUBLE", "DECIMAL"} ->
          {FloatValue(s) : s \in SampleFloats} \cup SampleInts
          \cup {BoolValue(TRUE), OtherValue}
      [] T = "MAP" ->
          {MapValue(<<"a">>), MapValue(<<>>), StringValue(<<"a">>), BoolValue(TRUE)}
          \cup SampleInts
      [] OTHER ->
          {MapValue(<<"a">>), OtherValue, StringValue(<<"a">>), BoolValue(TRUE)}
          \cup SampleInts

BindInputs ==
    UNION {{[num |-> FALSE, m |-> MathInt(FALSE, Zero64), value |-> v, T |-> T] :
              v \in ValuesFor(T)} : T \in BoundTypes}

InitBind ==
    /\ unset \in {S \in SUBSET (BindSlots \cup OtherBindSlots) : Cardinality(S) <= MaxUnset}
    /\ cvIn \in BindInputs
    /\ cvOut = ConvIdle
    /\ LifeIdle

\* The Go kind of the native encoding of a column type.
CellKind(T) ==
    CASE T \in IntegerTypes -> KindOfType(T)
      [] T = "DATE" -> "int32"
      [] T = "BOOLEAN" -> "uint8"
      [] OTHER -> "int64"

\* What executing the statement stores in a column of type T for the
\* argument of the bind call.
StoredCell(T, call) ==
    CASE T = "VARCHAR" -> Cell(T, Zero64, call.s)
      [] T = "BOOLEAN" -> Cell(T, BoolWord(call.w # Zero64), <<>>)
      [] OTHER -> Cell(T, Conv(CellKind(T), call.w), <<>>)

\* Execute after the bind, then the accessor of the column's type on the
\* stored cell.
ExecuteAndDecode ==
    /\ cvOut.phase = "bound"
    /\ cvOut.ok
    /\ cvIn.T \in CellTypes
    /\ cvOut.calls[1].k = "string" => cvIn.T = "VARCHAR"
    /\ cvOut' = Decoded(AccessorOf(cvIn.T),
                        GetValue(AccessorOf(cvIn.T), unset,
                                 StoredCell(cvIn.T, cvOut.calls[1])))
    /\ UNCHANGED <<unset, cvIn, lifeVars>>

NextBind == ApplyBind \/ ExecuteAndDecode

SpecBind == InitBind /\ [][NextBind]_vars

(***************************************************************************)
(* The database/sql driver methods that take a context: Conn.BeginTx,      *)
(* Stmt.ExecContext and Stmt.QueryContext.  cvIn holds the context, the    *)
(* arguments and the Stmt the method is called on; cvOut holds the error   *)
(* the method returned and the native calls it made, in order.             *)
(***************************************************************************)

\* A context as the methods see it: what Done() returns (nil, an open
\* channel or a closed one) and what Err() returns.
Context(done, err) == [done |-> done, err |-> err]

Contexts ==
    {Context("nil", "none"), Context("open", "none"),
     Context("closed", "context canceled"),
     Context("closed", "context deadline exceeded")}

\* The select on ctx.Done() with a default case, behind ctx.Done() != nil.
ContextDoneIgnored(ctx) == FALSE

ContextDone(ctx) == ctx.done # "nil" /\ ctx.done = "closed"

\* A Stmt: whether preparedStmt is set, and the handle, parameter types and
\* parameter count of the PreparedStatement behind it.
DriverStmt(native, handle, types) ==
    [native |-> native, handle |-> handle, ptypes |-> types,
     numParams |-> Len(types)]

\* Conn.Prepare is the only place a Stmt is made, and it sets preparedStmt to
\* what DuckDBConnection.Prepare returned without error; Stmt.Close leaves
\* the field in place and sets the statement's handle to nil.
DriverStmts ==
    {DriverStmt(TRUE, h, [i \in 1..n |-> t]) :
        h \in {"set", "nil"}, n \in 0..MaxParams, t \in ParamTypeChoices}

RECURSIVE ArgLists(_)
ArgLists(n) ==
    IF n = 0 THEN {<<>>}
    ELSE ArgLists(n - 1) \cup
         {Append(a, v) : a \in {x \in ArgLists(n - 1) : Len(x) = n - 1},
                         v \in BindValues}

DriverSlots == {"BindNull", "ParamType", "ExecutePrepared", "ResultError"}

DriverIdle == [phase |-> "input", op |-> "none", err |-> "none", calls |-> <<>>]

InitDriver ==
    /\ unset \in {S \in SUBSET DriverSlots : Cardinality(S) <= MaxUnset}
    /\ cvIn \in [ctx : Contexts, args : ArgLists(MaxParams + 1), st : DriverStmts,
                 conn : {"live", "nil"}]
    /\ cvOut = DriverIdle
    /\ LifeIdle

DriverCall(fn, hs, idx) == [fn |-> fn, hs |-> hs, idx |-> idx]

\* The end of PreparedStatement.BindParameter for a value that is not nil and
\* a type that was looked up: b is what duckdb.BindParameter returned.
TypedBind(paramIdx, b) ==
    [err |-> b.err,
     calls |-> <<DriverCall("duckdb_param_type", "live", paramIdx)>>
               \o [i \in DOMAIN b.calls |->
                     DriverCall(b.calls[i].fn, "live", paramIdx)]]

\* Two steps of a method in sequence, each [err, calls]: an error of the first
\* is returned at once, otherwise the second follows it.
Sequenced(first, second) ==
    IF first.err # "none" THEN first
    ELSE [err |-> second.err, calls |-> first.calls \o second.calls]

\* PreparedStatement.BindParameter on the statement behind a Stmt: [err, calls].
StmtBindParameter(nils, st, paramIdx, value) ==
    IF st.handle = "nil" THEN [err |-> "closed", calls |-> <<>>]
    ELSE IF "BindNull" \in nils THEN [err |-> "unavailable", calls |-> <<>>]
    ELSE IF value = NilValue
    THEN [err |-> IF NativeBindState(Len(st.ptypes), paramIdx) = "DuckDBSuccess"
                  THEN "none" ELSE "bind_null_failed",
          calls |-> (IF "ParamType" \notin nils /\ paramIdx - 1 >= 0 /\ paramIdx - 1 < st.numParams
                     THEN <<DriverCall("duckdb_param_type", "live", paramIdx)>>
                     ELSE <<>>)
                    \o <<DriverCall("duckdb_bind_null", "live", paramIdx)>>]
    ELSE IF "ParamType" \in nils \/ paramIdx - 1 < 0 \/ paramIdx - 1 >= st.numParams
    THEN [err |-> "type_invalid", calls |-> <<>>]
    ELSE TypedBind(paramIdx, BindParameter(nils, Len(st.ptypes), paramIdx, value,
                                           st.ptypes[paramIdx]))

\* The loop over args of ExecContext and QueryContext from argument i on:
\* parameter i is bound to args[i], and the first error ends the loop.
RECURSIVE BindArgs(_, _, _, _)
BindArgs(nils, st, args, i) ==
    IF i > Len(args) THEN [err |-> "none", calls |-> <<>>]
    ELSE Sequenced(StmtBindParameter(nils, st, i, args[i]),
                   BindArgs(nils, st, args, i + 1))

\* PreparedStatement.Execute when duckdb_execute_prepared returns state:
\* [err, calls].
StmtExecute(nils, st, state) ==
    IF st.handle = "nil" THEN [err |-> "closed", calls |-> <<>>]
    ELSE IF "ExecutePrepared" \in nils THEN [err |-> "unavailable", calls |-> <<>>]
    ELSE IF state = "DuckDBSuccess"
    THEN [err |-> "none",
          calls |-> <<DriverCall("duckdb_execute_prepared", "live", 0)>>]
    ELSE [err |-> "failed",
          calls |-> <<DriverCall("duckdb_execute_prepared", "live", 0)>>
                    \o (IF "ResultError" \in nils THEN <<>>
                        ELSE <<DriverCall("duckdb_result_error", "live", 0)>>)]

\* DuckDBConnection.Query when duckdb_query returns state: [err, calls].
ConnQuery(hs, state) ==
    [err |-> IF state = "DuckDBSuccess" THEN "none" ELSE "failed",
     calls |-> <<DriverCall("duckdb_query", hs, 0)>>]

\* What the caller has once a method returned.
DriverReturns(op, err, cs) ==
    /\ cvOut' = [phase |-> "returned", op |-> op, err |-> err, calls |-> cs]
    /\ UNCHANGED <<unset, cvIn, db, conns, stmts, results, last, calls>>

\* The states duckdb_query can return on the connection of the input: an error
\* on a nil connection.
QueryStates == IF cvIn.conn = "live" THEN {"DuckDBSuccess", "DuckDBError"}
               ELSE {"DuckDBError"}

\* A method returns what o, [err, calls], came to, after the calls of after
\* when o is no error.
ReturnsAfter(op, o, after) ==
    DriverReturns(op, o.err, IF o.err = "none" THEN o.calls \o after ELSE o.calls)

\* Conn.BeginTx: the context check, then Execute("BEGIN TRANSACTION"), which
\* closes the result of a successful query.
ConnBeginTx ==
    /\ cvOut.phase = "input"
    /\ IF ContextDone(cvIn.ctx)
       THEN DriverReturns("BeginTx", cvIn.ctx.err, <<>>)
       ELSE \E state \in QueryStates :
              ReturnsAfter("BeginTx", ConnQuery(cvIn.conn, state),
                  <<DriverCall("duckdb_destroy_result", "live", 0)>>)

\* BindAndExecute going on to Execute whatever the bind loop returned.
BindAndExecuteAfterFailure(nils, st, args, state) ==
    Sequenced([err |-> "none", calls |-> BindArgs(nils, st, args, 1).calls],
              StmtExecute(nils, st, state))

\* The part ExecContext and QueryContext share on a Stmt with preparedStmt
\* set, after the context check: bind every argument, then execute.
BindAndExecute(nils, st, args, state) ==
    Sequenced(BindArgs(nils, st, args, 1), StmtExecute(nils, st, state))

\* Stmt.ExecContext.  With preparedStmt set: the context check, the bind
\* loop, Execute, and the deferred result.Close().  Without it the
\* arguments are put into the query text and the text goes to Execute.
StmtExecContext ==
    /\ cvOut.phase = "input"
    /\ IF cvIn.st.native
       THEN IF ContextDone(cvIn.ctx)
            THEN DriverReturns("ExecContext", cvIn.ctx.err, <<>>)
            ELSE \E state \in {"DuckDBSuccess", "DuckDBError"} :
                   ReturnsAfter("ExecContext",
                       BindAndExecute(unset, cvIn.st, cvIn.args, state),
                       <<DriverCall("duckdb_destroy_result", "live", 0)>>)
       ELSE \E state \in QueryStates :
              ReturnsAfter("ExecContext", ConnQuery(cvIn.conn, state),
                  <<DriverCall("duckdb_destroy_result", "live", 0)>>)

\* The calls that fill a Rows from a result of cols columns: the column count,
\* each column's name, the row count.
RowsCalls(cols) ==
    <<DriverCall("duckdb_column_count", "live", 0)>>
    \o [i \in 1..cols |-> DriverCall("duckdb_column_name", "live", i - 1)]
    \o <<DriverCall("duckdb_row_count", "live", 0)>>

\* The column counts of the results followed.
ColumnCounts == 0..1

\* Stmt.QueryContext: as ExecContext, with the result kept in the Rows
\* returned.
StmtQueryContext ==
    /\ cvOut.phase = "input"
    /\ IF cvIn.st.native
       THEN IF ContextDone(cvIn.ctx)
            THEN DriverReturns("QueryContext", cvIn.ctx.err, <<>>)
            ELSE \E state \in {"DuckDBSuccess", "DuckDBError"}, cols \in ColumnCounts :
                   ReturnsAfter("QueryContext",
                       BindAndExecute(unset, cvIn.st, cvIn.args, state),
                       RowsCalls(cols))
       ELSE \E state \in QueryStates, cols \in ColumnCounts :
              ReturnsAfter("QueryContext", ConnQuery(cvIn.conn, state),
                  RowsCalls(cols))

NextDriver == ConnBeginTx \/ StmtExecContext \/ StmtQueryContext

SpecDriver == InitDriver /\ [][NextDriver]_vars

(***************************************************************************)
(* Binding a parameter again.  One prepared statement is followed through  *)
(* BindParameter, ClearBindings and Execute calls in any order.  cvIn      *)
(* holds the statement; cvOut holds the value each parameter has in the    *)
(* native statement, the host value of the latest bind that succeeded for  *)
(* each parameter, and the values the latest Execute and the one before it *)
(* ran with.                                                               *)
(***************************************************************************)

\* The value of a parameter in the native statement: nothing, NULL, or a word.
NoParam == [k |-> "unbound", w |-> Zero64]

NullParam == [k |-> "null", w |-> Zero64]

\* The value duckdb.BindParameter's native call b.calls[1] sets.
SentParam(b) == [k |-> b.calls[1].k, w |-> b.calls[1].w]

\* A bind that leaves a parameter alone once it holds a value.
ReboundKeepsFirst(old, nils, st, paramIdx, value) ==
    IF old # NoParam THEN old
    ELSE IF StmtBindParameter(nils, st, paramIdx, value).err # "none" THEN old
    ELSE IF value = NilValue THEN NullParam
    ELSE SentParam(BindParameter(nils, Len(st.ptypes), paramIdx, value,
                                 st.ptypes[paramIdx]))

\* The value parameter paramIdx has in the native statement after
\* PreparedStatement.BindParameter(paramIdx, value), old being its value
\* before: each bind that succeeds makes its native bind call, which sets the
\* parameter, and a bind that fails sets nothing.
Rebound(old, nils, st, paramIdx, value) ==
    IF StmtBindParameter(nils, st, paramIdx, value).err # "none" THEN old
    ELSE IF value = NilValue THEN NullParam
    ELSE SentParam(BindParameter(nils, Len(st.ptypes), paramIdx, value,
                                 st.ptypes[paramIdx]))

\* PreparedStatement.ClearBindings: the error it returns.
StmtClearBindings(nils, st) ==
    IF st.handle = "nil" THEN "closed"
    ELSE IF "ClearBindings" \in nils THEN "unavailable"
    ELSE "none"

RebindSlots == DriverSlots \cup {"ClearBindings", "BindInt8"}

\* No host value: the parameter has no bind in force.
NoBind == [k |-> "none", w |-> Zero64, s |-> <<>>]

RebindIdle(n) ==
    [phase |-> "input", err |-> "none",
     bound |-> [i \in 1..n |-> NoParam],
     latest |-> [i \in 1..n |-> NoBind],
     used |-> [i \in 1..n |-> NoParam],
     prior |-> [i \in 1..n |-> NoParam]]

InitRebind ==
    /\ unset \in {S \in SUBSET RebindSlots : Cardinality(S) <= MaxUnset}
    /\ \E st \in DriverStmts :
          /\ cvIn = [st |-> st]
          /\ cvOut = RebindIdle(st.numParams)
    /\ LifeIdle

RebindReturns(out) ==
    /\ cvOut' = out
    /\ UNCHANGED <<unset, cvIn, db, conns, stmts, results, last, calls>>

\* PreparedStatement.BindParameter(paramIdx, value).
RebindParameter(paramIdx, value) ==
    RebindReturns(
        [cvOut EXCEPT
           !.phase = "bound",
           !.err = StmtBindParameter(unset, cvIn.st, paramIdx, value).err,
           !.bound = [i \in DOMAIN @ |->
                        IF i = paramIdx
                        THEN Rebound(@[i], unset, cvIn.st, paramIdx, value)
                        ELSE @[i]],
           !.latest = [i \in DOMAIN @ |->
                         IF i = paramIdx
                            /\ StmtBindParameter(unset, cvIn.st, paramIdx, value).err = "none"
                         THEN value
                         ELSE @[i]]])

\* PreparedStatement.ClearBindings: duckdb_clear_bindings leaves every
\* parameter without a value.
RebindClear ==
    RebindReturns(
        IF StmtClearBindings(unset, cvIn.st) = "none"
        THEN [cvOut EXCEPT !.phase = "cleared", !.err = "none",
                           !.bound = [i \in DOMAIN @ |-> NoParam],
                           !.latest = [i \in DOMAIN @ |-> NoBind]]
        ELSE [cvOut EXCEPT !.phase = "cleared",
                           !.err = StmtClearBindings(unset, cvIn.st)])

\* PreparedStatement.Execute: duckdb_execute_prepared runs the statement with
\* the values its parameters hold, and fails when one holds none.
RebindExecute ==
    \E state \in {"DuckDBSuccess", "DuckDBError"} :
        /\ state = "DuckDBSuccess" => \A i \in DOMAIN cvOut.bound : cvOut.bound[i] # NoParam
        /\ RebindReturns(
              [cvOut EXCEPT
                 !.phase = "executed",
                 !.err = StmtExecute(unset, cvIn.st, state).err,
                 !.used = IF StmtExecute(unset, cvIn.st, state).err = "none"
                          THEN cvOut.bound ELSE @,
                 !.prior = IF StmtExecute(unset, cvIn.st, state).err = "none"
                           THEN cvOut.used ELSE @])

NextRebind ==
    \/ \E p \in ParamPositions, v \in BindValues : RebindParameter(p, v)
    \/ RebindClear
    \/ RebindExecute

SpecRebind == InitRebind /\ [][NextRebind]_vars

(***************************************************************************)
(* NewDB: the library is loaded, the entry points are registered one after *)
(* the other, and the database is opened.  cvIn holds what the platform    *)
(* gives: whether the library loads, the symbols it lacks, and the state   *)
(* duckdb_open returns.  cvOut holds how far NewDB has come, the slots set *)
(* so far, and what NewDB came to.                                         *)
(***************************************************************************)

\* Entry points NewDB registers, in the order of registration; the other
\* registrations are calls of the same form.
LoadSymbols ==
    <<"duckdb_open", "duckdb_connect", "duckdb_close", "duckdb_query",
      "duckdb_value_date", "duckdb_prepare">>

SymbolSet == {LoadSymbols[i] : i \in DOMAIN LoadSymbols}

LoadIdle ==
    [phase |-> "start", pc |-> 1, table |-> {}, res |-> "running", symbol |-> "none"]

InitLoad ==
    /\ unset = {}
    /\ cvIn \in [loads : BOOLEAN,
                 missing : {S \in SUBSET SymbolSet : Cardinality(S) <= MaxUnset},
                 open : {"DuckDBSuccess", "DuckDBError"}]
    /\ cvOut = LoadIdle
    /\ LifeIdle

LoadReturns(out) ==
    /\ cvOut' = out
    /\ UNCHANGED <<unset, cvIn, db, conns, stmts, results, last, calls>>

\* LoadDuckDBLibrary, and NewDB's return of its error.
LoadLibrary ==
    /\ cvOut.phase = "start"
    /\ LoadReturns(IF cvIn.loads
                   THEN [cvOut EXCEPT !.phase = "register"]
                   ELSE [cvOut EXCEPT !.phase = "returned", !.res = "load_failed"])

\* One purego.RegisterLibFunc(&slot, lib, name) call.  The call returns
\* nothing to NewDB.  For a symbol the library lacks it either panics with
\* the loader's message, which NewDB does not recover from, or leaves the
\* slot nil.
RegisterLibFunc ==
    /\ cvOut.phase = "register"
    /\ cvOut.pc <= Len(LoadSymbols)
    /\ IF LoadSymbols[cvOut.pc] \in cvIn.missing
       THEN \/ LoadReturns([cvOut EXCEPT !.phase = "panicked", !.res = "panic",
                                         !.symbol = LoadSymbols[cvOut.pc]])
            \/ LoadReturns([cvOut EXCEPT !.pc = @ + 1])
       ELSE LoadReturns([cvOut EXCEPT !.pc = @ + 1,
                                      !.table = @ \cup {LoadSymbols[cvOut.pc]}])

\* open(path, &handle) and the return of NewDB; calling open through a nil
\* function value panics.
OpenDatabase ==
    /\ cvOut.phase = "register"
    /\ cvOut.pc > Len(LoadSymbols)
    /\ LoadReturns(
          IF "duckdb_open" \notin cvOut.table
          THEN [cvOut EXCEPT !.phase = "panicked", !.res = "panic"]
          ELSE IF cvIn.open # "DuckDBSuccess"
          THEN [cvOut EXCEPT !.phase = "returned", !.res = "open_failed"]
          ELSE [cvOut EXCEPT !.phase = "returned", !.res = "ok"])

NextLoad == LoadLibrary \/ RegisterLibFunc \/ OpenDatabase

SpecLoad == InitLoad /\ [][NextLoad]_vars

(***************************************************************************)
(* Rows: the iterator Stmt.QueryContext returns over a result.  cvIn holds *)
(* the result: its column count and, for each row, the accessor of the     *)
(* cascade in Rows.Next that first returns ok for the row's cells ("none"  *)
(* when all four decline).  cvOut holds the Rows struct, what the last     *)
(* call of Next returned and wrote to dest, and the row indexes Next has   *)
(* read so far.  Row counts stay below 2^31, so int32(r.currentRow) is the *)
(* row index itself.                                                       *)
(***************************************************************************)
MaxRows == 3

MaxEofCalls == 2

Cascade == <<"ValueTimestamp", "ValueDate", "ValueTime", "ValueString">>

RowKinds == {"ValueTimestamp", "ValueDate", "ValueString", "none"}

RECURSIVE RowLists(_)
\* The results of n rows or fewer.
RowLists(n) ==
    IF n = 0 THEN {<<>>}
    ELSE RowLists(n - 1)
         \cup {Append(rs, k) : rs \in {r \in RowLists(n - 1) : Len(r) = n - 1},
                               k \in RowKinds}

RowsIdle ==
    [phase |-> "query", rowCnt |-> 0, currentRow |-> 0, columnCnt |-> 0,
     ret |-> "none", dest |-> <<>>, delivered |-> <<>>, eofs |-> 0]

InitRows ==
    /\ unset = {}
    /\ cvIn \in [cols : ColumnCounts, rows : RowLists(MaxRows)]
    /\ cvOut = RowsIdle
    /\ LifeIdle

RowsReturns(out) ==
    /\ cvOut' = out
    /\ UNCHANGED <<unset, cvIn, db, conns, stmts, results, last, calls>>

\* The &Rows{...} of QueryContext: rowCnt is result.RowCount() and
\* currentRow is 0.
NewRows ==
    /\ cvOut.phase = "query"
    /\ RowsReturns([cvOut EXCEPT !.phase = "open",
                                 !.columnCnt = cvIn.cols,
                                 !.rowCnt = Len(cvIn.rows),
                                 !.currentRow = 0])

\* What the column loop of Next leaves in dest[i] for the cell of a row:
\* the value of the first accessor that returns ok, read at that row, or
\* nil.  A row index outside the result is declined by every accessor.
DestOf(rows, row) ==
    IF row + 1 \in DOMAIN rows /\ rows[row + 1] # "none"
    THEN [row |-> row, via |-> rows[row + 1]]
    ELSE [row |-> row, via |-> "nil"]

\* Rows.Next with the end test r.currentRow > r.rowCnt.
RowsStepPastEnd(rows, r) ==
    IF r.currentRow > r.rowCnt
    THEN [r EXCEPT !.ret = "io.EOF", !.eofs = @ + 1]
    ELSE [r EXCEPT !.ret = "nil",
                   !.dest = [i \in 1..r.columnCnt |-> DestOf(rows, r.currentRow)],
                   !.delivered = Append(@, r.currentRow),
                   !.currentRow = @ + 1]

\* Rows.Next on the struct r over the result rows.
RowsStep(rows, r) ==
    IF r.currentRow >= r.rowCnt
    THEN [r EXCEPT !.ret = "io.EOF", !.eofs = @ + 1]
    ELSE [r EXCEPT !.ret = "nil",
                   !.dest = [i \in 1..r.columnCnt |-> DestOf(rows, r.currentRow)],
                   !.delivered = Append(@, r.currentRow),
                   !.currentRow = @ + 1]

RowsNext ==
    /\ cvOut.phase = "open"
    /\ cvOut.eofs < MaxEofCalls
    /\ RowsReturns(RowsStep(cvIn.rows, cvOut))

NextOfRows == NewRows \/ RowsNext

SpecRows == InitRows /\ [][NextOfRows]_vars

(***************************************************************************)
(* Properties of the lifecycle specification.  `last` and `calls` hold the *)
(* operation that led to the state, what it returned and the native calls  *)
(* it made, so a property of an operation is a property of the state after *)
(* it.                                                                     *)
(***************************************************************************)
StatementOps ==
    {"PreparedStatementExecute", "BindParameter", "ClearBindings",
     "ParameterName", "ParameterType", "StatementType"}

\* C1: after a prepared statement has been closed, Execute, BindParameter,
\* ClearBindings, ParameterName, ParameterType and StatementType on it each
\* return the closed-statement error and make no native call.
C1_ClosedStatementRejects ==
    (/\ last.op \in StatementOps
     /\ stmts[last.id].state = "open"
     /\ stmts[last.id].handle = "nil")
        => (last.res = "closed" /\ calls = <<>>)

\* C2: however often Close is called on a prepared statement,
\* duckdb_destroy_prepare is called exactly once for it, on the live handle,
\* and a Close that finds the statement closed returns success without a
\* native call.
C2_CloseIdempotent ==
    \A s \in StmtIds :
        stmts[s].state = "open" =>
            /\ stmts[s].destroyCalls <= 1
            /\ (stmts[s].handle = "nil" => stmts[s].destroyCalls = 1)
            /\ (last.op = "PreparedStatementClose" /\ last.id = s /\ stmts[s].handle = "nil")
                  => /\ last.res = "ok"
                     /\ \A i \in DOMAIN calls :
                            calls[i].fn = "duckdb_destroy_prepare" /\ calls[i].hs = "live"

\* A second Close of a statement: it returned success, made no native call,
\* and the statement's handle was destroyed once.
C2_Witness ==
    \E s \in StmtIds :
        /\ last.op = "PreparedStatementClose" /\ last.id = s
        /\ last.res = "ok" /\ calls = <<>>
        /\ stmts[s].handle = "nil" /\ stmts[s].destroyCalls = 1

\* C3: for every result, connection and database handle, the native release
\* entry point (duckdb_destroy_result, duckdb_disconnect, duckdb_close) is
\* called at most once, whatever sequence of Close calls is made.
C3_ReleasedAtMostOnce ==
    /\ db.closeCalls <= 1
    /\ \A c \in ConnIds : conns[c].disconnectCalls <= 1
    /\ \A r \in ResultIds : results[r].destroyCalls <= 1

QueryOps ==
    {"DuckDBConnectionQuery", "DuckDBConnectionExecute", "PreparedStatementExecute"}

\* C4: when duckdb_query or duckdb_execute_prepared reports failure on a
\* live handle, the operation destroys the result block it filled exactly
\* once, as its last native call, before it returns the error.
C4_FailedResultDestroyed ==
    (/\ last.op \in QueryOps
     /\ last.res = "failed"
     /\ calls # <<>>
     /\ calls[1].hs = "live")
        => /\ Cardinality({i \in DOMAIN calls : calls[i].fn = "duckdb_destroy_result"}) = 1
           /\ calls[Len(calls)].fn = "duckdb_destroy_result"
           /\ \A r \in ResultIds :
                  results[r].state = "dropped" => results[r].destroyCalls = 1

\* The children the host still holds open: a connection not disconnected, a
\* statement not closed, a result not closed.
OpenConns == {c \in ConnIds : conns[c].made /\ conns[c].disconnectCalls = 0}

OpenStmtsOf(c) ==
    {s \in StmtIds : stmts[s].state = "open" /\ stmts[s].conn = c /\ stmts[s].handle # "nil"}

OpenResultsOf(c) ==
    {r \in ResultIds : /\ results[r].state = "returned"
                       /\ results[r].conn = c
                       /\ results[r].destroyCalls = 0}

\* C5: no operation hands a live database to duckdb_close while one of its
\* connections is open, or a live connection to duckdb_disconnect while one
\* of its prepared statements or results is open.
C5_ParentOutlivesChildren ==
    \A i \in DOMAIN calls :
        /\ (calls[i].fn = "duckdb_close" /\ calls[i].hs = "live")
              => OpenConns = {}
        /\ (calls[i].fn = "duckdb_disconnect" /\ calls[i].hs = "live")
              => (OpenStmtsOf(calls[i].id) = {} /\ OpenResultsOf(calls[i].id) = {})

\* C6: an accessor called on a result after its Close is rejected and makes
\* no native call on the destroyed result block.
C6_ClosedResultRejects ==
    (last.op = "ResultAccessor" /\ results[last.id].destroyCalls > 0)
        => (last.res = "closed" /\ calls = <<>>)

MetadataFns == {"duckdb_param_type", "duckdb_parameter_name"}

\* C7: for the 1-based parameter position p given to BindParameter,
\* ParameterName or ParameterType, every native bind call receives p and
\* every native metadata query receives p - 1.
C7_IndexBases ==
    last.op \in {"BindParameter", "ParameterName", "ParameterType"} =>
        \A i \in DOMAIN calls :
            IF calls[i].fn \in MetadataFns
            THEN calls[i].idx = last.idx - 1
            ELSE calls[i].idx = last.idx

\* C8: BindParameter on an open statement with a position above the
\* statement's parameter count returns the parameter-index-out-of-range
\* error, whatever the value.  (BindParameter's results are named after the
\* error messages it has.)
C8_IndexOutOfRangeRejected ==
    (/\ last.op = "BindParameter"
     /\ stmts[last.id].handle # "nil"
     /\ last.idx > Len(stmts[last.id].ptypes))
        => last.res = "index_out_of_range"

\* C18: when prepare fails, duckdb_prepare_error is called on the failed
\* statement while its handle is still live, and no duckdb_destroy_prepare on
\* that statement comes before it in the operation.
C18_ErrorReadBeforeDestroy ==
    \A i \in DOMAIN calls :
        calls[i].fn = "duckdb_prepare_error" =>
            /\ last.op = "DuckDBConnectionPrepare"
            /\ last.res = "failed"
            /\ calls[i].hs = "live"
            /\ \A j \in DOMAIN calls :
                   (calls[j].fn = "duckdb_destroy_prepare" /\ calls[j].id = calls[i].id)
                       => i < j

\* A failed prepare has read the error text and destroyed the statement.
C18_Witness ==
    /\ last.op = "DuckDBConnectionPrepare"
    /\ last.res = "failed"
    /\ \E i, j \in DOMAIN calls :
          /\ calls[i].fn = "duckdb_prepare_error"
          /\ calls[j].fn = "duckdb_destroy_prepare"
          /\ calls[j].id = calls[i].id

\* C21: Connect, Query, Prepare and Execute, when they return, hand back
\* either a host object with no error or an error with no host object: after
\* "ok" the caller holds the connection, statement or result, and after any
\* error it holds none.
C21_HandleXorError ==
    /\ last.op = "DuckDBConnect" =>
           (last.res = "ok" <=> conns[last.id].made)
    /\ (last.op = "DuckDBConnectionQuery" /\ last.res # "crash") =>
           IF last.res = "ok"
           THEN results[last.id].state = "returned"
           ELSE \A r \in ResultIds : results[r].state # "returned"
    /\ last.op = "DuckDBConnectionPrepare" =>
           IF last.res = "ok"
           THEN stmts[last.id].state = "open" /\ stmts[last.id].handle = "set"
           ELSE \A s \in StmtIds : stmts[s].state # "open"
    /\ last.op = "PreparedStatementExecute" =>
           IF last.res = "ok"
           THEN \E r \in ResultIds : results[r].state = "returned"
           ELSE \A r \in ResultIds : results[r].state # "returned"

\* A query failed in the native library: the caller got the error and holds
\* no result.
C21_Witness ==
    /\ last.op = "DuckDBConnectionQuery"
    /\ last.res = "failed"
    /\ calls # <<>>
    /\ calls[1].hs = "live"
    /\ results[last.id].state = "dropped"

\* The function-table slot behind a native entry point of the lifecycle
\* operations.
SlotOfFn(fn) ==
    CASE fn = "duckdb_prepare" -> "Prepare"
      [] fn = "duckdb_prepare_error" -> "PrepareError"
      [] fn = "duckdb_destroy_prepare" -> "DestroyPrepared"
      [] fn = "duckdb_nparams" -> "NumParams"
      [] fn = "duckdb_parameter_name" -> "ParameterName"
      [] fn = "duckdb_param_type" -> "ParamType"
      [] fn = "duckdb_clear_bindings" -> "ClearBindings"
      [] fn = "duckdb_prepared_statement_type" -> "StatementType"
      [] fn = "duckdb_bind_null" -> "BindNull"
      [] fn = "duckdb_execute_prepared" -> "ExecutePrepared"
      [] fn = "duckdb_result_error" -> "ResultError"
      [] fn = "bind_int8" -> "BindInt8"
      [] OTHER -> "none"

\* C25: no operation calls through a function-table slot that is unset: it
\* makes no native call of an entry point whose slot is nil, and it does not
\* panic on the nil function value.
C25_NoCallThroughUnsetSlot ==
    /\ last.res # "panic"
    /\ \A i \in DOMAIN calls : SlotOfFn(calls[i].fn) \notin unset

\* The entry point that hands out the error text the native library holds
\* after the failure of an operation: the text is in the result block for
\* duckdb_query and duckdb_execute_prepared, and in the statement for
\* duckdb_prepare.
ErrorTextFn(op) ==
    IF op = "DuckDBConnectionPrepare" THEN "duckdb_prepare_error"
    ELSE "duckdb_result_error"

ErrorTextSlot(op) ==
    IF op = "DuckDBConnectionPrepare" THEN "PrepareError" ELSE "ResultError"

FailingOps ==
    {"DuckDBConnectionQuery", "DuckDBConnectionExecute",
     "DuckDBConnectionPrepare", "PreparedStatementExecute"}

\* C19: when a native call made on a live handle fails and the entry point
\* giving its error text is set, the operation reads that text for the error it
\* returns; a failed Query in particular calls duckdb_result_error.  The host
\* has no other way to the text, so an operation that does not make the call
\* returns an error without it.
C19_NativeErrorTextReturned ==
    (/\ last.op \in FailingOps
     /\ last.res = "failed"
     /\ calls # <<>>
     /\ calls[1].hs = "live"
     /\ ErrorTextSlot(last.op) \notin unset)
        => \E i \in DOMAIN calls : calls[i].fn = ErrorTextFn(last.op)

\* The calls of an operation that are not the lookup of a parameter's type.
BindCalls(cs) == SelectSeq(cs, LAMBDA c : c.fn # "duckdb_param_type")

\* C14: binding a nil host value goes through duckdb_bind_null, exactly once
\* and with no other bind entry point called, whatever the type of the
\* parameter; a closed statement and a table without the entry point are
\* refused before any call.
C14_NilBindsNull ==
    [][(/\ last'.op = "BindParameter"
        /\ PreparedStatementBindParameter(last'.id, last'.idx, NilValue)) =>
              \/ last'.res \in {"closed", "unavailable"} /\ calls' = <<>>
              \/ /\ Len(BindCalls(calls')) = 1
                 /\ BindCalls(calls')[1].fn = "duckdb_bind_null"
                 /\ BindCalls(calls')[1].idx = last'.idx]_vars

\* nil was bound to a parameter of a type the binder declines (BLOB): one
\* duckdb_bind_null call, and the parameter holds NULL.
C14_Witness ==
    \E s \in StmtIds :
        /\ last.op = "BindParameter" /\ last.id = s /\ last.res = "ok"
        /\ last.idx \in DOMAIN stmts[s].ptypes
        /\ stmts[s].ptypes[last.idx] = "BLOB"
        /\ stmts[s].bound[last.idx].k = "null"
        /\ Len(BindCalls(calls)) = 1
        /\ BindCalls(calls)[1].fn = "duckdb_bind_null"

C10_InRangeConverts ==
    (/\ cvIn.num
     /\ InRange(cvIn.m, KindOfType(cvIn.T))
     /\ cvOut.phase = "converted")
        => (cvOut.ok /\ MathOf(KindOfType(cvIn.T), cvOut.w) = cvIn.m)

(***************************************************************************)
(* Properties of the decoding specification.                               *)
(***************************************************************************)
\* The accessors with a typed native entry point of their own.
TypedAccessors == ValueAccessors \ {"GetValueString"}

\* C11: every typed value accessor first queries the per-cell NULL
\* predicate, and on a NULL cell it reports "no value" without calling the
\* typed native accessor; the date, time and timestamp accessors included.
C11_NullQueriedFirst ==
    (cvOut.phase = "decoded" /\ cvOut.op \in TypedAccessors /\ unset = {}) =>
        /\ cvOut.calls # <<>>
        /\ cvOut.calls[1] = "duckdb_value_is_null"
        /\ cvIn.cell.null =>
              ~cvOut.present /\ cvOut.calls = <<"duckdb_value_is_null">>

\* The native entry points an accessor called.
CalledFns == {cvOut.calls[i] : i \in 1..Len(cvOut.calls)}

\* C13: whether a string cell is reported as SQL NULL is decided by the
\* native NULL predicate, never by the string accessor returning a null
\* pointer: reading a string cell asks duckdb_value_is_null and reports
\* "no value" exactly when it answers true.
C13_StringNullByPredicate ==
    (/\ cvOut.phase = "decoded"
     /\ cvOut.op = "GetValueString"
     /\ cvIn.cell.type = "VARCHAR"
     /\ unset = {}) =>
        /\ "duckdb_value_is_null" \in CalledFns
        /\ cvOut.present = ~NativeValueNull(cvIn.cell)

NaturalValue(v, T) ==
    CASE T = "BOOLEAN" -> v.k = "bool"
      [] T \in IntegerTypes ->
          v.k \in IntKinds \cup UintKinds /\ InRange(MathOf(v.k, v.w), KindOfType(T))
      [] T = "DATE" -> v.k = "Date"
      [] T = "TIME" -> v.k = "Time"
      [] T = "TIMESTAMP" -> v.k = "time.Time" /\ v.nsec % 1000 = 0
      [] T = "VARCHAR" -> v.k = "string"
      [] OTHER -> FALSE

\* The decoded value out equals the host value v of parameter type T.
SameValue(v, T, out) ==
    CASE T = "BOOLEAN" -> out.w = v.w
      [] T \in IntegerTypes -> MathOf(KindOfType(T), out.w) = MathOf(v.k, v.w)
      [] T = "DATE" -> out.w = MulDaySeconds(v.w) /\ out.nsec = 0
      [] T = "TIME" -> out.w = v.w
      [] T = "TIMESTAMP" -> out.w = v.w /\ out.nsec = v.nsec
      [] OTHER -> out.s = v.s

\* C12: for every type with a bind path and a decode path, a non-NULL value
\* v that is bound, executed and decoded comes back as a present value equal
\* to v, the values whose native encoding is zero included.
C12_RoundTrip ==
    (cvOut.phase = "decoded" /\ NaturalValue(cvIn.value, cvIn.T)) =>
        cvOut.present /\ SameValue(cvIn.value, cvIn.T, cvOut)

\* The host values that are the calendar date 1970-01-02: the time.Time of
\* its midnight in UTC, the ISO text, and the Date of one day.
SecondOfJanuary ==
    {GoTime(<<0, 0, 1, 20864>>, 0, 0),
     StringValue(<<"1", "9", "7", "0", "-", "0", "1", "-", "0", "2">>),
     DateValue(One64)}

\* C23: bound to a DATE parameter through duckdb_bind_date, the date
\* 1970-01-02 is sent as day offset 1, and the stored day offset 1 decodes as
\* a present value whose calendar date is 1970-01-02, at midnight UTC.
C23_SecondOfJanuary ==
    (/\ cvIn.T = "DATE"
     /\ cvIn.value \in SecondOfJanuary
     /\ "BindDate" \notin unset) =>
        /\ cvOut.phase = "bound" =>
               /\ cvOut.ok
               /\ Len(cvOut.calls) = 1
               /\ cvOut.calls[1].fn = "bind_date"
               /\ cvOut.calls[1].w = One64
        /\ cvOut.phase = "decoded" =>
               /\ cvOut.present
               /\ CivilFromDays(IntOf32(DayOf(cvOut.w)))
                     = [year |-> 1970, month |-> 1, day |-> 2]
               /\ SecondOfDay(cvOut.w) = 0
               /\ cvOut.nsec = 0

\* The time.Time of 1970-01-02 went through bind, execute and GetValueDate.
C23_Witness ==
    /\ cvIn.T = "DATE"
    /\ cvIn.value = GoTime(<<0, 0, 1, 20864>>, 0, 0)
    /\ "BindDate" \notin unset
    /\ cvOut.phase = "decoded"
    /\ cvOut.present

\* The instant 2025-05-07 12:34:56.000000 UTC as a time.Time, in UTC and in a
\* location nine hours east, and its microseconds since the epoch,
\* 1746621296000000.
SeventhOfMay ==
    {GoTime(<<0, 0, 26651, 21360>>, 0, 0), GoTime(<<0, 0, 26651, 21360>>, 0, 32400)}

SeventhOfMayMicros == <<6, 13450, 62951, 48128>>

\* C24: bound to a TIMESTAMP parameter through duckdb_bind_timestamp, the
\* instant 2025-05-07 12:34:56.000000 UTC is sent as 1746621296000000
\* microseconds, and the stored value decodes as the present instant with the
\* same second and no fraction.
C24_TimestampRoundTrip ==
    (/\ cvIn.T = "TIMESTAMP"
     /\ cvIn.value \in SeventhOfMay
     /\ "BindTimestamp" \notin unset) =>
        /\ cvOut.phase = "bound" =>
               /\ cvOut.ok
               /\ Len(cvOut.calls) = 1
               /\ cvOut.calls[1].fn = "bind_timestamp"
               /\ cvOut.calls[1].w = SeventhOfMayMicros
        /\ cvOut.phase = "decoded" =>
               /\ cvOut.present
               /\ cvOut.w = <<0, 0, 26651, 21360>>
               /\ cvOut.nsec = 0

\* The instant went through bind, execute and GetValueTimestamp.
C24_Witness ==
    /\ cvIn.T = "TIMESTAMP"
    /\ cvIn.value = GoTime(<<0, 0, 26651, 21360>>, 0, 0)
    /\ "BindTimestamp" \notin unset
    /\ cvOut.phase = "decoded"
    /\ cvOut.present
    /\ cvOut.calls = <<"duckdb_value_timestamp">>

\* C16: binding any value to a parameter of type list, struct, map, interval
\* or blob fails at once with the unsupported-type error, and no string or
\* JSON rendering of the value is sent to the native library.
C16_ComplexTypesRefused ==
    (cvOut.phase = "bound" /\ cvIn.T \in DeclinedTypes \cup {"MAP"}) =>
        cvOut.err = "unsupported" /\ cvOut.calls = <<>>

\* The entry point made for a parameter type; any other one the binder
\* calls for the type is a fallback.
ExactFn(T) ==
    CASE T = "BOOLEAN" -> "bind_boolean"
      [] T = "TINYINT" -> "bind_int8"
      [] T = "SMALLINT" -> "bind_int16"
      [] T = "INTEGER" -> "bind_int32"
      [] T = "BIGINT" -> "bind_int64"
      [] T = "UTINYINT" -> "bind_uint8"
      [] T = "USMALLINT" -> "bind_uint16"
      [] T = "UINTEGER" -> "bind_uint32"
      [] T = "UBIGINT" -> "bind_uint64"
      [] T = "DATE" -> "bind_date"
      [] T = "TIME" -> "bind_time"
      [] T = "TIMESTAMP" -> "bind_timestamp"
      [] T = "VARCHAR" -> "bind_varchar"
      [] OTHER -> "bind_double"

\* The clock a text HH:MM:SS[.ffffff] denotes: [ok, sod, micros].
ClockOfText(chars) ==
    IF Len(chars) < 8 \/ Len(chars) = 9 \/ Len(chars) > 15
    THEN [ok |-> FALSE, sod |-> 0, micros |-> 0]
    ELSE IF chars[3] # ":" \/ chars[6] # ":" \/ ~NumberAt(chars, 1, 2).ok
            \/ ~NumberAt(chars, 4, 5).ok \/ ~NumberAt(chars, 7, 8).ok
            \/ (Len(chars) > 8 /\ chars[9] # ".")
            \/ \E i \in 10..Len(chars) : ~IsDigit(chars[i])
    THEN [ok |-> FALSE, sod |-> 0, micros |-> 0]
    ELSE [ok |-> TRUE,
          sod |-> NumberAt(chars, 1, 2).n * 3600 + NumberAt(chars, 4, 5).n * 60
                  + NumberAt(chars, 7, 8).n,
          micros |-> IF Len(chars) = 8 THEN 0
                     ELSE LET d == DigitsAt(chars, 10, Len(chars)) \o <<0, 0, 0, 0, 0>>
                          IN  d[1] * 100000 + d[2] * 10000 + d[3] * 1000
                              + d[4] * 100 + d[5] * 10 + d[6]]

\* The microseconds since midnight of a clock.
MicrosOfClock(c) ==
    Add64(MulSmall(MulSmall(WordOfInt(c.sod), 1000), 1000), WordOfInt(c.micros))

\* The argument of a bind call denotes the value v was converted to for a
\* parameter of type T: the same number for the integer and boolean types,
\* and for a text the date, clock, instant or decimal it reads as.
DenotesConverted(v, T, call) ==
    CASE T \in IntegerTypes ->
          MathOf(call.k, call.w) = MathOf(KindOfType(T), ToIntX(KindOfType(T), v).w)
      [] T = "BOOLEAN" -> MathOf(call.k, call.w) = MathInt(FALSE, ToBoolean(v).w)
      [] T = "DATE" ->
          /\ Len(call.s) = 10
          /\ ParseDate(call.s).ok
          /\ ParseDate(call.s).days = IntOf32(ToDate(v).w)
      [] T = "TIME" ->
          /\ ClockOfText(call.s).ok
          /\ MicrosOfClock(ClockOfText(call.s)) = ToTime(v).w
      [] T = "TIMESTAMP" ->
          /\ Len(call.s) >= 19
          /\ ParseDate(SubSeq(call.s, 1, 10)).ok
          /\ ClockOfText(SubSeq(call.s, 12, Len(call.s))).ok
          /\ Add64(MulDaySeconds(WordOfInt(ParseDate(SubSeq(call.s, 1, 10)).days)),
                   WordOfInt(ClockOfText(SubSeq(call.s, 12, Len(call.s))).sod)) = v.w
          /\ ClockOfText(SubSeq(call.s, 12, Len(call.s))).micros = v.nsec \div 1000
      [] OTHER -> ParseDecimal(call.s) = ToFloat64(v).f

\* C17: whenever the binder calls a fallback entry point because the exact
\* one of the parameter type is unavailable, the argument of the fallback
\* denotes exactly the value the host value was converted to.
C17_FallbackPreservesValue ==
    (/\ cvOut.phase = "bound"
     /\ cvOut.calls # <<>>
     /\ cvIn.T \in (CellTypes \cup {"DECIMAL"}) \ {"VARCHAR"}
     /\ cvOut.calls[1].fn # ExactFn(cvIn.T)) =>
        DenotesConverted(cvIn.value, cvIn.T, cvOut.calls[1])

\* C30: a calendar date bound to a DATE parameter is sent as exactly the
\* number of days from 1970-01-01 to that date, for the dates within a
\* lifetime of 1970 and for the dates centuries away alike: the time.Time
\* samples all have a day offset that fits 32 bits.
C30_DateOffsetExact ==
    (/\ cvOut.phase = "bound"
     /\ cvIn.T = "DATE"
     /\ cvIn.value.k = "time.Time"
     /\ "BindDate" \notin unset) =>
        /\ cvOut.ok
        /\ cvOut.calls[1].fn = "bind_date"
        /\ cvOut.calls[1].w = Conv("int32", DayOf(cvIn.value.w))

\* C27: ToBoolean maps an integer of any Go integer type to false exactly
\* when its value is 0: bound to a BOOLEAN parameter, an integer host value
\* is sent as false when it is 0 and as true otherwise.
C27_IntegerFalseIffZero ==
    (/\ cvOut.phase = "bound"
     /\ cvIn.T = "BOOLEAN"
     /\ cvIn.value.k \in IntKinds \cup UintKinds) =>
        /\ ToBoolean(cvIn.value) = ConvOk(BoolWord(cvIn.value.w # Zero64))
        /\ cvOut.calls # <<>> =>
               cvOut.calls[1].w = BoolWord(cvIn.value.w # Zero64)

(***************************************************************************)
(* Properties of the driver methods.                                       *)
(***************************************************************************)

\* C20: when the context is already cancelled at the call, BeginTx,
\* ExecContext and QueryContext return the context's error and make no
\* native call.
C20_CancelledStartsNoCall ==
    (cvOut.phase = "returned" /\ cvIn.ctx.done = "closed") =>
        /\ cvOut.err = cvIn.ctx.err
        /\ cvOut.calls = <<>>

\* ExecContext has returned on a cancelled context, for an open statement
\* with an argument to bind.
C20_Witness ==
    /\ cvOut.phase = "returned"
    /\ cvOut.op = "ExecContext"
    /\ cvIn.ctx = Context("closed", "context canceled")
    /\ cvIn.st.handle = "set"
    /\ cvIn.args # <<>>
    /\ cvOut.err = "context canceled"

\* What ExecContext or QueryContext came to is the failure b, [err, calls],
\* of the bind loop: its error is returned, its calls are all the calls made,
\* and duckdb_execute_prepared is not among them.
BindFailureReturned(b) ==
    b.err # "none" =>
        /\ cvOut.err = b.err
        /\ cvOut.calls = b.calls
        /\ \A i \in DOMAIN cvOut.calls :
               cvOut.calls[i].fn # "duckdb_execute_prepared"

\* C29: when binding an argument fails in ExecContext or QueryContext on a
\* context that is not done, the call returns the error of that bind and the
\* prepared statement is not executed.
C29_BindFailureStopsExecute ==
    (/\ cvOut.phase = "returned"
     /\ cvOut.op \in {"ExecContext", "QueryContext"}
     /\ cvIn.st.native
     /\ ~ContextDone(cvIn.ctx)) =>
        BindFailureReturned(BindArgs(unset, cvIn.st, cvIn.args, 1))

\* QueryContext has returned on an open statement whose first argument was
\* bound and whose second has no parameter to go to.
C29_Witness ==
    /\ cvOut.phase = "returned"
    /\ cvOut.op = "QueryContext"
    /\ ~ContextDone(cvIn.ctx)
    /\ cvIn.st.handle = "set"
    /\ Len(cvIn.args) > cvIn.st.numParams
    /\ cvOut.err = "type_invalid"
    /\ cvOut.calls # <<>>

(***************************************************************************)
(* Properties of binding again.                                            *)
(***************************************************************************)

\* The native value that stands for host value v: NULL for nil, otherwise the
\* integer v itself.
ParamDenotes(p, v) ==
    IF v = NilValue THEN p.k = "null"
    ELSE p.k \notin {"null", "unbound"} /\ p.w = v.w

\* C22: an Execute that succeeds runs with, for every parameter, the value of
\* the latest bind that succeeded for it, however often the parameter was
\* bound before and whether or not the statement was executed in between.
C22_LatestBindUsed ==
    (cvOut.phase = "executed" /\ cvOut.err = "none") =>
        \A i \in DOMAIN cvOut.latest :
            /\ cvOut.latest[i] # NoBind
            /\ ParamDenotes(cvOut.used[i], cvOut.latest[i])

\* A statement was executed, a parameter of it was bound again to another
\* value, and the statement was executed again.
C22_Witness ==
    /\ cvOut.phase = "executed"
    /\ cvOut.err = "none"
    /\ \E i \in DOMAIN cvOut.used :
          /\ cvOut.prior[i] # NoParam
          /\ cvOut.used[i] # cvOut.prior[i]
          /\ cvOut.latest[i] = IntValue("int", <<0, 0, 0, 100>>)

(***************************************************************************)
(* Properties of loading.                                                  *)
(***************************************************************************)

\* C26: when the library loads but lacks a symbol NewDB registers, NewDB
\* returns a MissingSymbol error naming a symbol the library lacks: it does
\* not panic, and it does not return a table with the slot left nil.
C26_MissingSymbolReported ==
    (/\ cvIn.loads
     /\ cvIn.missing # {}
     /\ cvOut.phase \in {"returned", "panicked"}) =>
        /\ cvOut.phase = "returned"
        /\ cvOut.res = "missing_symbol"
        /\ cvOut.symbol \in cvIn.missing

(***************************************************************************)
(* Properties of the rows iterator.                                        *)
(***************************************************************************)

\* C28: Rows.Next delivers the rows of the result once each and in row
\* order: the rows read so far are 0 .. currentRow-1, the current-row index
\* never exceeds rowCnt, a call that returns nil has filled dest from the
\* row before the current one, and once a call has returned io.EOF, all the
\* rows have been delivered and every later call returns io.EOF too.
C28_RowsOnceInOrder ==
    cvOut.phase = "open" =>
        /\ cvOut.rowCnt = Len(cvIn.rows)
        /\ cvOut.currentRow <= cvOut.rowCnt
        /\ cvOut.delivered = [i \in 1..cvOut.currentRow |-> i - 1]
        /\ cvOut.ret = "nil" =>
               /\ cvOut.currentRow >= 1
               /\ \A i \in DOMAIN cvOut.dest :
                      /\ cvOut.dest[i].row = cvOut.currentRow - 1
                      /\ cvOut.dest[i].via
                            = IF cvIn.rows[cvOut.currentRow] = "none" THEN "nil"
                              ELSE cvIn.rows[cvOut.currentRow]
        /\ cvOut.eofs > 0 =>
               /\ cvOut.ret = "io.EOF"
               /\ cvOut.currentRow = cvOut.rowCnt
        /\ (cvOut.ret = "none") = (cvOut.delivered = <<>> /\ cvOut.eofs = 0)

\* Next has delivered two rows or more and then returned io.EOF twice.
C28_Witness ==
    /\ cvOut.phase = "open"
    /\ cvIn.cols = 1
    /\ Len(cvOut.delivered) >= 2
    /\ cvOut.eofs >= 2
    /\ cvOut.ret = "io.EOF"

====
